---------------------------- MODULE Spec2Model ----------------------------
(***************************************************************************)
(* A model of src/lightweight_pptx_recovery.py: the carver, the text       *)
(* loader, the slide segmenter, the image distributor and the splitting    *)
(* and assembling loop of main().                                          *)
(*                                                                         *)
(* Text and bytes are sequences of integers: a byte is its value, a        *)
(* character is its code point.  The model stays inside ASCII, where the   *)
(* two coincide; a string constant is written as the tuple of its code     *)
(* points with the string in a comment beside it.                          *)
(***************************************************************************)
EXTENDS Integers, Sequences, FiniteSets, TLC

VARIABLES
    pc,               \* position in the function being run
    args,             \* the parsed command line (setup_argparse)
    data,             \* bytes of the input file
    text_paragraphs,  \* main: text_paragraphs
    slides_content,   \* dict slide number -> [title, content, images]
    image_count,      \* main: image_count
    media,            \* extract_dir/ppt/media: file name -> bytes
    scan,             \* extract_images_from_binary: pos, counters, ranges written
    workdir,          \* whether extract_dir exists on disk
    plan,             \* main: slides_per_file, num_files, loop index
    archives,         \* output_dir: part number -> archive contents
    result            \* what main() ended with

vars == << pc, args, data, text_paragraphs, slides_content, image_count,
           media, scan, workdir, plan, archives, result >>

-----------------------------------------------------------------------------
(* Python's str and list primitives, on sequences of code points.          *)

Min(a, b) == IF a < b THEN a ELSE b
Max(a, b) == IF a > b THEN a ELSE b

\* str.isspace() / regex \s on an ASCII character
IsSpace(c) == c \in {9, 10, 11, 12, 13, 28, 29, 30, 31, 32}
\* str.isupper() / str.islower() / regex \d on one ASCII character
IsUpper(c) == c \in 65..90
IsLower(c) == c \in 97..122
IsDigit(c) == c \in 48..57
ToLower(c) == IF IsUpper(c) THEN c + 32 ELSE c

\* s[a:b] with 0-based Python bounds 0 <= a, b
Slice(s, a, b) == SubSeq(s, a + 1, Min(b, Len(s)))

\* s[start:]
Drop(s, n) == SubSeq(s, n + 1, Len(s))

MinOf(S) == CHOOSE x \in S : \A y \in S : x <= y
MaxOf(S) == CHOOSE x \in S : \A y \in S : x >= y

\* the indices of s, in order
Indices(s) == [i \in 1..Len(s) |-> i]

NonSpace(s) == {i \in 1..Len(s) : ~IsSpace(s[i])}

\* str.lstrip(), str.rstrip(), str.strip()
LStrip(s) == IF NonSpace(s) = {} THEN << >> ELSE SubSeq(s, MinOf(NonSpace(s)), Len(s))
RStrip(s) == IF NonSpace(s) = {} THEN << >> ELSE SubSeq(s, 1, MaxOf(NonSpace(s)))
Strip(s) == RStrip(LStrip(s))

StartsWith(s, p) == Len(s) >= Len(p) /\ SubSeq(s, 1, Len(p)) = p
EndsWith(s, p) == Len(s) >= Len(p) /\ SubSeq(s, Len(s) - Len(p) + 1, Len(s)) = p

\* str(n) for n >= 0
RECURSIVE Str(_)
Str(n) == IF n < 10 THEN << 48 + n >> ELSE Str(n \div 10) \o << 48 + (n % 10) >>

\* str.split(): the maximal runs of non-whitespace characters
WordEnd(s, i) == MinOf({j \in i..Len(s) : j = Len(s) \/ IsSpace(s[j + 1])})

Split(s) ==
    LET starts == SelectSeq(Indices(s),
                            LAMBDA i : ~IsSpace(s[i]) /\ (i = 1 \/ IsSpace(s[i - 1])))
    IN  [k \in 1..Len(starts) |-> SubSeq(s, starts[k], WordEnd(s, starts[k]))]

\* {} (an empty dict)
EmptyDict == [k \in {} |-> 0]

\* x in list
InSeq(x, s) == \E i \in 1..Len(s) : s[i] = x

\* sorted(keys)
RECURSIVE SortedSeq(_)
SortedSeq(S) ==
    IF S = {} THEN << >>
    ELSE LET m == CHOOSE x \in S : \A y \in S : x <= y
         IN  << m >> \o SortedSeq(S \ {m})

\* list.sort() on a list of integers
RECURSIVE SortList(_)
SortList(l) ==
    IF l = << >> THEN << >>
    ELSE LET k == CHOOSE i \in 1..Len(l) : \A j \in 1..Len(l) : l[i] <= l[j]
         IN  << l[k] >> \o SortList(SubSeq(l, 1, k - 1) \o SubSeq(l, k + 1, Len(l)))

-----------------------------------------------------------------------------
(* load_extracted_text_file: paragraphs = re.split(r'\n\s*\n', content),   *)
(* stripped, the empty ones dropped.                                       *)

NL == 10

\* the last / first index of the whitespace run that holds index i
RECURSIVE SpaceRunEnd(_, _)
SpaceRunEnd(s, i) ==
    IF i < Len(s) /\ IsSpace(s[i + 1]) THEN SpaceRunEnd(s, i + 1) ELSE i

RECURSIVE SpaceRunStart(_, _)
SpaceRunStart(s, i) ==
    IF i > 1 /\ IsSpace(s[i - 1]) THEN SpaceRunStart(s, i - 1) ELSE i

\* End (1-based, inclusive) of the match of \n\s*\n starting at i, 0 if none:
\* \s* is greedy, so the match ends at the last newline of the whitespace
\* run that follows position i.
BlankMatchEnd(s, i) ==
    IF s[i] # NL THEN 0
    ELSE LET ends == {j \in (i + 1)..SpaceRunEnd(s, i) : s[j] = NL}
         IN  IF ends = {} THEN 0 ELSE MaxOf(ends)

\* The starts of the non-overlapping matches, leftmost first: a match starts
\* at the first newline of a whitespace run that holds another newline (a
\* match from a newline further left in the run would have consumed it).
BlankMatchStarts(s) ==
    SelectSeq(Indices(s),
              LAMBDA i : /\ BlankMatchEnd(s, i) # 0
                         /\ \A h \in SpaceRunStart(s, i)..(i - 1) : s[h] # NL)

\* SplitBlank with every newline taken for a paragraph break
SplitAtNewlines(s) ==
    LET starts == SelectSeq(Indices(s), LAMBDA i : s[i] = NL)
        n      == Len(starts)
    IN  [k \in 1..(n + 1) |->
            SubSeq(s,
                   IF k = 1 THEN 1 ELSE starts[k - 1] + 1,
                   IF k = n + 1 THEN Len(s) ELSE starts[k] - 1)]

\* re.split(r'\n\s*\n', content): the text between the matches
SplitBlank(s) ==
    LET starts == BlankMatchStarts(s)
        n      == Len(starts)
    IN  [k \in 1..(n + 1) |->
            SubSeq(s,
                   IF k = 1 THEN 1 ELSE BlankMatchEnd(s, starts[k - 1]) + 1,
                   IF k = n + 1 THEN Len(s) ELSE starts[k] - 1)]

RECURSIVE StripNonEmpty(_)
StripNonEmpty(ps) ==
    IF ps = << >> THEN << >>
    ELSE (IF Strip(Head(ps)) # << >> THEN << Strip(Head(ps)) >> ELSE << >>)
         \o StripNonEmpty(Tail(ps))

load_extracted_text_file(content) == StripNonEmpty(SplitBlank(content))

-----------------------------------------------------------------------------
(* is_likely_title                                                         *)

SlideWord == << 115, 108, 105, 100, 101 >>      \* "slide"
Colon == 58                                      \* ':'
Period == 46                                     \* '.'

\* re.match(r'^Slide\s+\d+', text, re.IGNORECASE)
MatchesSlidePattern(text) ==
    /\ Len(text) >= 7
    /\ [i \in 1..5 |-> ToLower(text[i])] = SlideWord
    /\ \E k \in 6..(Len(text) - 1) :
          /\ \A j \in 6..k : IsSpace(text[j])
          /\ IsDigit(text[k + 1])

\* str.isupper(): at least one cased character and no lowercase one
IsUpperStr(text) ==
    /\ \E i \in 1..Len(text) : IsUpper(text[i])
    /\ \A i \in 1..Len(text) : ~IsLower(text[i])

\* sum(1 for word in words if word and word[0].isupper())
UppercaseWords(words) ==
    Cardinality({i \in 1..Len(words) : words[i] # << >> /\ IsUpper(words[i][1])})

\* the title-case test applied to a fragment of any number of words
is_likely_titleAnyWords(text) ==
    \/ MatchesSlidePattern(text)
    \/ /\ Len(text) < 60
       /\ \/ EndsWith(RStrip(text), << Colon >>)
          \/ IsUpperStr(text)
          \/ LET words == Split(text)
             IN  /\ Len(words) >= 1
                 /\ 10 * UppercaseWords(words) >= 7 * Len(words)

is_likely_title(text) ==
    \/ MatchesSlidePattern(text)
    \/ /\ Len(text) < 60
       /\ \/ EndsWith(RStrip(text), << Colon >>)
          \/ IsUpperStr(text)
          \/ LET words == Split(text)
             IN  /\ Len(words) >= 2
                 \* uppercase_words / len(words) >= 0.7
                 /\ 10 * UppercaseWords(words) >= 7 * Len(words)

-----------------------------------------------------------------------------
(* organize_text_into_slides                                               *)

\* FilterParagraphs without the test of the stripped length
RECURSIVE FilterParagraphsKeepShort(_, _, _)
FilterParagraphsKeepShort(paragraphs, i, filtered) ==
    IF i > Len(paragraphs) THEN filtered
    ELSE LET para == paragraphs[i]
         IN  IF InSeq(para, filtered)
             THEN FilterParagraphsKeepShort(paragraphs, i + 1, filtered)
             ELSE FilterParagraphsKeepShort(paragraphs, i + 1, Append(filtered, para))

\* lines 236-249: drop paragraphs whose stripped length is under 5 and
\* paragraphs already seen
RECURSIVE FilterParagraphs(_, _, _)
FilterParagraphs(paragraphs, i, filtered) ==
    IF i > Len(paragraphs) THEN filtered
    ELSE LET para == paragraphs[i]
         IN  IF Len(Strip(para)) < 5 \/ InSeq(para, filtered)
             THEN FilterParagraphs(paragraphs, i + 1, filtered)
             ELSE FilterParagraphs(paragraphs, i + 1, Append(filtered, para))

\* lines 252-254: max_paragraphs = max_slides * 8
LimitParagraphs(filtered, max_slides) ==
    IF Len(filtered) > max_slides * 8 THEN Slice(filtered, 0, max_slides * 8)
    ELSE filtered

\* lines 259-262 (indices are 0-based, as in the source)
RECURSIVE InitialTitleIndices(_, _)
InitialTitleIndices(paragraphs, i) ==
    IF i >= Len(paragraphs) THEN << >>
    ELSE (IF \/ is_likely_title(paragraphs[i + 1])
             \/ (i > 0 /\ Len(paragraphs[i + 1]) < 50 /\ Len(paragraphs[i]) < 3)
          THEN << i >> ELSE << >>)
         \o InitialTitleIndices(paragraphs, i + 1)

\* the widening pass looking for the following index, not for i, among the
\* marked ones
RECURSIVE WidenTitleIndicesRepeat(_, _, _)
WidenTitleIndicesRepeat(paragraphs, i, title_indices) ==
    IF i >= Len(paragraphs) THEN title_indices
    ELSE LET para == Strip(paragraphs[i + 1])
         IN  IF /\ (EndsWith(para, << Colon >>) \/ EndsWith(para, << Period >>))
                /\ ~InSeq(i + 1, title_indices)
             THEN WidenTitleIndicesRepeat(paragraphs, i + 1, Append(title_indices, i))
             ELSE WidenTitleIndicesRepeat(paragraphs, i + 1, title_indices)

\* lines 265-270
RECURSIVE WidenTitleIndices(_, _, _)
WidenTitleIndices(paragraphs, i, title_indices) ==
    IF i >= Len(paragraphs) THEN title_indices
    ELSE LET para == Strip(paragraphs[i + 1])
         IN  IF /\ (EndsWith(para, << Colon >>) \/ EndsWith(para, << Period >>))
                /\ ~InSeq(i, title_indices)
             THEN WidenTitleIndices(paragraphs, i + 1, Append(title_indices, i))
             ELSE WidenTitleIndices(paragraphs, i + 1, title_indices)

\* lines 259-273
TitleIndices(paragraphs, max_slides) ==
    LET first == InitialTitleIndices(paragraphs, 0)
    IN  SortList(IF Len(first) < max_slides \div 2
                 THEN WidenTitleIndices(paragraphs, 0, first)
                 ELSE first)

SlideTitle(n) == << 83, 108, 105, 100, 101, 32 >> \o Str(n)     \* f"Slide {n}"

SlideGroup(title, content) == [title |-> title, content |-> content, images |-> << >>]

\* lines 278-299: fixed number of paragraphs per slide
RECURSIVE FallbackLoop(_, _, _, _, _)
FallbackLoop(paragraphs, paras_per_slide, i, current_slide, slides) ==
    IF i >= Len(paragraphs) THEN slides
    ELSE LET slide_paras == Slice(paragraphs, i, i + paras_per_slide)
             title   == IF Len(slide_paras[1]) < 60 THEN slide_paras[1]
                        ELSE SlideTitle(current_slide)
             content == IF slide_paras[1] = title THEN Tail(slide_paras)
                        ELSE slide_paras
         IN  IF content = << >> /\ title = SlideTitle(current_slide)
             THEN FallbackLoop(paragraphs, paras_per_slide, i + paras_per_slide,
                               current_slide, slides)
             ELSE FallbackLoop(paragraphs, paras_per_slide, i + paras_per_slide,
                               current_slide + 1,
                               (current_slide :> SlideGroup(title, content)) @@ slides)

\* PrimaryLoop with the body running up to and including the next boundary
RECURSIVE PrimaryLoopOverlap(_, _, _, _, _)
PrimaryLoopOverlap(paragraphs, title_indices, i, current_slide, slides) ==
    IF i >= Len(title_indices) THEN slides
    ELSE LET start_idx == title_indices[i + 1]
             end_idx   == IF i + 1 < Len(title_indices) THEN title_indices[i + 2]
                          ELSE Len(paragraphs)
             title     == paragraphs[start_idx + 1]
             content   == Slice(paragraphs, start_idx + 1, end_idx + 1)
         IN  IF content = << >>
             THEN PrimaryLoopOverlap(paragraphs, title_indices, i + 1, current_slide, slides)
             ELSE PrimaryLoopOverlap(paragraphs, title_indices, i + 1, current_slide + 1,
                                     (current_slide :> SlideGroup(title, content)) @@ slides)

\* PrimaryLoop with the slide number advanced for a skipped title as well
RECURSIVE PrimaryLoopGap(_, _, _, _, _)
PrimaryLoopGap(paragraphs, title_indices, i, current_slide, slides) ==
    IF i >= Len(title_indices) THEN slides
    ELSE LET start_idx == title_indices[i + 1]
             end_idx   == IF i + 1 < Len(title_indices) THEN title_indices[i + 2]
                          ELSE Len(paragraphs)
             title     == paragraphs[start_idx + 1]
             content   == Slice(paragraphs, start_idx + 1, end_idx)
         IN  IF content = << >>
             THEN PrimaryLoopGap(paragraphs, title_indices, i + 1, current_slide + 1, slides)
             ELSE PrimaryLoopGap(paragraphs, title_indices, i + 1, current_slide + 1,
                                 (current_slide :> SlideGroup(title, content)) @@ slides)

\* lines 302-318: one slide per title index
RECURSIVE PrimaryLoop(_, _, _, _, _)
PrimaryLoop(paragraphs, title_indices, i, current_slide, slides) ==
    IF i >= Len(title_indices) THEN slides
    ELSE LET start_idx == title_indices[i + 1]
             end_idx   == IF i + 1 < Len(title_indices) THEN title_indices[i + 2]
                          ELSE Len(paragraphs)
             title     == paragraphs[start_idx + 1]
             content   == Slice(paragraphs, start_idx + 1, end_idx)
         IN  IF content = << >>
             THEN PrimaryLoop(paragraphs, title_indices, i + 1, current_slide, slides)
             ELSE PrimaryLoop(paragraphs, title_indices, i + 1, current_slide + 1,
                              (current_slide :> SlideGroup(title, content)) @@ slides)

\* line 276
UsesFallback(title_indices) == title_indices = << >> \/ Len(title_indices) < 5

\* line 278
ParasPerSlide(paragraphs, max_slides) ==
    Max(1, Min(8, Len(paragraphs) \div Max(1, Min(max_slides, 15))))

\* LimitSlides keeping the highest numbers
LimitSlidesLast(slides, max_slides) ==
    IF Cardinality(DOMAIN slides) > max_slides
    THEN LET numbers == SortedSeq(DOMAIN slides)
             slides_to_keep == Slice(numbers, Len(numbers) - max_slides, Len(numbers))
         IN  [k \in {slides_to_keep[j] : j \in 1..Len(slides_to_keep)} |-> slides[k]]
    ELSE slides

\* lines 321-324
LimitSlides(slides, max_slides) ==
    IF Cardinality(DOMAIN slides) > max_slides
    THEN LET slides_to_keep == Slice(SortedSeq(DOMAIN slides), 0, max_slides)
         IN  [k \in {slides_to_keep[j] : j \in 1..Len(slides_to_keep)} |-> slides[k]]
    ELSE slides

\* lines 232-318, before the limit to max_slides
SegmentParagraphs(raw, max_slides) ==
    LET paragraphs    == LimitParagraphs(FilterParagraphs(raw, 1, << >>), max_slides)
        title_indices == TitleIndices(paragraphs, max_slides)
    IN  IF UsesFallback(title_indices)
        THEN FallbackLoop(paragraphs, ParasPerSlide(paragraphs, max_slides), 0, 1, EmptyDict)
        ELSE PrimaryLoop(paragraphs, title_indices, 0, 1, EmptyDict)

organize_text_into_slides(raw, max_slides) ==
    LimitSlides(SegmentParagraphs(raw, max_slides), max_slides)

-----------------------------------------------------------------------------
(* extract_images_from_binary                                              *)

png_header  == << 137, 80, 78, 71, 13, 10, 26, 10 >>        \* b'\x89PNG\r\n\x1a\n'
iend_marker == << 73, 69, 78, 68, 174, 66, 96, 130 >>       \* b'IEND\xaeB\x60\x82'
jpg_header  == << 255, 216, 255 >>                           \* b'\xff\xd8\xff'
eoi_marker  == << 255, 217 >>                                \* b'\xff\xd9'

\* bytes.find(sub, start): the lowest 0-based index >= start at which sub
\* occurs, -1 if there is none
Find(buf, sub, start) ==
    LET hits == {i \in start..(Len(buf) - Len(sub)) :
                    \A k \in 1..Len(sub) : buf[i + k] = sub[k]}
    IN  IF hits = {} THEN -1 ELSE CHOOSE i \in hits : \A j \in hits : i <= j

BE16(buf, o) == buf[o + 1] * 256 + buf[o + 2]
BE32(buf, o) == ((buf[o + 1] * 256 + buf[o + 2]) * 256 + buf[o + 3]) * 256 + buf[o + 4]

IsAlnum(c) == IsUpper(c) \/ IsLower(c) \/ IsDigit(c) \/ c = 95

IHDR == << 73, 72, 68, 82 >>
IDAT == << 73, 68, 65, 84 >>
IEND == << 73, 69, 78, 68 >>

\* Image.open on a PNG candidate (line 85).  The open is lazy: the decoder
\* checks the signature and walks the chunks (length, type, data, CRC) from
\* IHDR up to the first IDAT or IEND; it does not decode pixel data and it
\* does not look behind that point.  A chunk that runs past the end of the
\* candidate, or a type that is not four word characters, is an error.
RECURSIVE PngChunkWalk(_, _, _)
PngChunkWalk(buf, o, seen_ihdr) ==
    IF o + 8 > Len(buf) THEN FALSE
    ELSE LET length == BE32(buf, o)
             cid    == SubSeq(buf, o + 5, o + 8)
         IN  IF \E k \in 1..4 : ~IsAlnum(cid[k]) THEN FALSE
             ELSE IF cid \in {IDAT, IEND} THEN seen_ihdr
             ELSE IF o + 12 + length > Len(buf) THEN FALSE
             ELSE IF cid = IHDR /\ length # 13 THEN FALSE
             ELSE PngChunkWalk(buf, o + 12 + length, seen_ihdr \/ cid = IHDR)

PngAccepts(image_data) ==
    StartsWith(image_data, png_header) /\ PngChunkWalk(image_data, 8, FALSE)

\* Image.open on a JPEG candidate (line 114): the decoder reads the marker
\* segments after SOI and stops at SOS; it needs a frame header (SOFn)
\* before it.  Markers D0..D9 and 01 carry no length.
RECURSIVE JpegMarkerWalk(_, _, _)
JpegMarkerWalk(buf, o, seen_sof) ==
    IF o + 2 > Len(buf) THEN FALSE
    ELSE IF buf[o + 1] # 255
    THEN (IF Find(buf, << 255 >>, o) = -1 THEN FALSE
          ELSE JpegMarkerWalk(buf, Find(buf, << 255 >>, o), seen_sof))
    ELSE LET m == buf[o + 2]
         IN  IF m = 218 THEN seen_sof
             ELSE IF m = 255 THEN JpegMarkerWalk(buf, o + 1, seen_sof)
             ELSE IF m = 0 THEN JpegMarkerWalk(buf, o + 2, seen_sof)
             ELSE IF m \in 208..217 \/ m = 1 THEN JpegMarkerWalk(buf, o + 2, seen_sof)
             ELSE IF m < 192 THEN FALSE
             ELSE IF o + 4 > Len(buf) THEN FALSE
             ELSE IF o + 2 + BE16(buf, o + 2) > Len(buf) THEN FALSE
             ELSE JpegMarkerWalk(buf, o + 2 + BE16(buf, o + 2),
                                 seen_sof \/ m \in ({192, 193, 194, 195} \cup {197, 198, 199}
                                                    \cup {201, 202, 203} \cup {205, 206, 207}))

JpegAccepts(image_data) ==
    StartsWith(image_data, jpg_header) /\ JpegMarkerWalk(image_data, 2, FALSE)

ImagePrefix == << 105, 109, 97, 103, 101, 95 >>      \* "image_"
DotPng == << 46, 112, 110, 103 >>                     \* ".png"
DotJpg == << 46, 106, 112, 103 >>                     \* ".jpg"
DotJpeg == << 46, 106, 112, 101, 103 >>               \* ".jpeg"

\* f"image_{n}.png", f"image_{n}.jpg"
ImageName(n, ext) == ImagePrefix \o Str(n) \o ext

\* PngScanStep with a candidate that has no IEND marker after it taken to
\* run to the end of the buffer
PngScanStepToEnd(buf, st) ==
    LET pos == Find(buf, png_header, st.pos)
    IN  IF pos = -1 THEN [st EXCEPT !.done = TRUE]
        ELSE LET end_pos    == Find(buf, iend_marker, pos)
                 stop       == IF end_pos = -1 THEN Len(buf) ELSE end_pos + Len(iend_marker)
                 image_data == Slice(buf, pos, stop)
             IN  IF PngAccepts(image_data)
                 THEN [st EXCEPT
                         !.pos = pos + 1,
                         !.png_count = @ + 1,
                         !.media = (ImageName(st.png_count + 1, DotPng) :> image_data) @@ @,
                         !.carved = Append(@, [kind |-> "png", start |-> pos, stop |-> stop])]
                 ELSE [st EXCEPT !.pos = pos + 1]

\* PngScanStep with the range ended where the IEND marker starts
PngScanStepShort(buf, st) ==
    LET pos == Find(buf, png_header, st.pos)
    IN  IF pos = -1 THEN [st EXCEPT !.done = TRUE]
        ELSE LET end_pos    == Find(buf, iend_marker, pos)
                 stop       == end_pos
                 image_data == Slice(buf, pos, stop)
             IN  IF end_pos # -1 /\ PngAccepts(image_data)
                 THEN [st EXCEPT
                         !.pos = pos + 1,
                         !.png_count = @ + 1,
                         !.media = (ImageName(st.png_count + 1, DotPng) :> image_data) @@ @,
                         !.carved = Append(@, [kind |-> "png", start |-> pos, stop |-> stop])]
                 ELSE [st EXCEPT !.pos = pos + 1]

\* One turn of the loop of lines 70-92.  st is [pos, png_count, jpg_count,
\* media, carved, done]; carved lists the byte ranges written, in order.
PngScanStep(buf, st) ==
    LET pos == Find(buf, png_header, st.pos)
    IN  IF pos = -1 THEN [st EXCEPT !.done = TRUE]
        ELSE LET end_pos    == Find(buf, iend_marker, pos)
                 stop       == end_pos + Len(iend_marker)
                 image_data == Slice(buf, pos, stop)
             IN  IF end_pos # -1 /\ PngAccepts(image_data)
                 THEN [st EXCEPT
                         !.pos = pos + 1,
                         !.png_count = @ + 1,
                         !.media = (ImageName(st.png_count + 1, DotPng) :> image_data) @@ @,
                         !.carved = Append(@, [kind |-> "png", start |-> pos, stop |-> stop])]
                 ELSE [st EXCEPT !.pos = pos + 1]

\* JpegScanStep with the carved JPEG written under a .png name
JpegScanStepAsPng(buf, st) ==
    LET pos == Find(buf, jpg_header, st.pos)
    IN  IF pos = -1 THEN [st EXCEPT !.done = TRUE]
        ELSE LET end_pos    == Find(buf, eoi_marker, pos)
                 stop       == end_pos + Len(eoi_marker)
                 image_data == Slice(buf, pos, stop)
             IN  IF end_pos # -1 /\ JpegAccepts(image_data)
                 THEN [st EXCEPT
                         !.pos = pos + 1,
                         !.jpg_count = @ + 1,
                         !.media = (ImageName(st.png_count + st.jpg_count + 1, DotPng)
                                        :> image_data) @@ @,
                         !.carved = Append(@, [kind |-> "jpg", start |-> pos, stop |-> stop])]
                 ELSE [st EXCEPT !.pos = pos + 1]

\* One turn of the loop of lines 99-121.
JpegScanStep(buf, st) ==
    LET pos == Find(buf, jpg_header, st.pos)
    IN  IF pos = -1 THEN [st EXCEPT !.done = TRUE]
        ELSE LET end_pos    == Find(buf, eoi_marker, pos)
                 stop       == end_pos + Len(eoi_marker)
                 image_data == Slice(buf, pos, stop)
             IN  IF end_pos # -1 /\ JpegAccepts(image_data)
                 THEN [st EXCEPT
                         !.pos = pos + 1,
                         !.jpg_count = @ + 1,
                         !.media = (ImageName(st.png_count + st.jpg_count + 1, DotJpg)
                                        :> image_data) @@ @,
                         !.carved = Append(@, [kind |-> "jpg", start |-> pos, stop |-> stop])]
                 ELSE [st EXCEPT !.pos = pos + 1]

RECURSIVE PngScan(_, _)
PngScan(buf, st) == IF st.done THEN st ELSE PngScan(buf, PngScanStep(buf, st))

RECURSIVE JpegScan(_, _)
JpegScan(buf, st) == IF st.done THEN st ELSE JpegScan(buf, JpegScanStep(buf, st))


\* lines 67-68: pos = 0, png_count = 0, on the media directory as found
ScanStart(store) ==
    [pos |-> 0, png_count |-> 0, jpg_count |-> 0, media |-> store,
     carved |-> << >>, done |-> FALSE]

\* lines 96-97: pos = 0, jpg_count = 0
JpegScanStart(st) == [st EXCEPT !.pos = 0, !.jpg_count = 0, !.done = FALSE]

\* the whole function: the scan state at line 123
extract_images_from_binary(buf, store) ==
    JpegScan(buf, JpegScanStart(PngScan(buf, ScanStart(store))))

-----------------------------------------------------------------------------
(* extract_text_from_binary                                                *)

IsCont(b) == b \in 128..191

\* The length of the well-formed UTF-8 sequence that starts at 0-based
\* offset o, 0 if the bytes there are not one.
Utf8Len(buf, o) ==
    LET b  == buf[o + 1]
        c1 == IF o + 2 <= Len(buf) THEN buf[o + 2] ELSE 0
        c2 == IF o + 3 <= Len(buf) THEN buf[o + 3] ELSE 0
        c3 == IF o + 4 <= Len(buf) THEN buf[o + 4] ELSE 0
    IN  IF b < 128 THEN 1
        ELSE IF b \in 194..223 THEN (IF IsCont(c1) THEN 2 ELSE 0)
        ELSE IF b = 224 THEN (IF c1 \in 160..191 /\ IsCont(c2) THEN 3 ELSE 0)
        ELSE IF b = 237 THEN (IF c1 \in 128..159 /\ IsCont(c2) THEN 3 ELSE 0)
        ELSE IF b \in 225..239 THEN (IF IsCont(c1) /\ IsCont(c2) THEN 3 ELSE 0)
        ELSE IF b = 240 THEN (IF c1 \in 144..191 /\ IsCont(c2) /\ IsCont(c3) THEN 4 ELSE 0)
        ELSE IF b \in 241..243 THEN (IF IsCont(c1) /\ IsCont(c2) /\ IsCont(c3) THEN 4 ELSE 0)
        ELSE IF b = 244 THEN (IF c1 \in 128..143 /\ IsCont(c2) /\ IsCont(c3) THEN 4 ELSE 0)
        ELSE 0

Utf8Point(buf, o, n) ==
    IF n = 1 THEN buf[o + 1]
    ELSE IF n = 2 THEN (buf[o + 1] % 32) * 64 + (buf[o + 2] % 64)
    ELSE IF n = 3 THEN ((buf[o + 1] % 16) * 64 + (buf[o + 2] % 64)) * 64 + (buf[o + 3] % 64)
    ELSE (((buf[o + 1] % 8) * 64 + (buf[o + 2] % 64)) * 64 + (buf[o + 3] % 64)) * 64
         + (buf[o + 4] % 64)

\* Whether the byte at 0-based offset o is a later byte of a well-formed
\* sequence.  Only continuation bytes can be, and the lead byte of their
\* sequence is at most 3 bytes before them.
InsideSequence(buf, o) ==
    /\ IsCont(buf[o + 1])
    /\ \E k \in 1..3 : o - k >= 0 /\ ~IsCont(buf[o - k + 1]) /\ Utf8Len(buf, o - k) > k

\* data.decode('utf-8', errors='ignore'): one character per well-formed
\* sequence; a byte that starts none and lies inside none is dropped
Decode(buf) ==
    LET starts == SelectSeq([i \in 1..Len(buf) |-> i - 1],
                            LAMBDA o : Utf8Len(buf, o) > 0 /\ ~InsideSequence(buf, o))
    IN  [k \in 1..Len(starts) |-> Utf8Point(buf, starts[k], Utf8Len(buf, starts[k]))]

OpenTag  == << 60, 97, 58, 116 >>                     \* "<a:t"
CloseTag == << 60, 47, 97, 58, 116, 62 >>             \* "</a:t>"
XmlProlog == << 60, 63, 120, 109, 108 >>              \* "<?xml"
Gt == 62                                               \* '>'

\* re.findall(r'<a:t[^>]*>(.*?)</a:t>', text_data, re.DOTALL): the groups
\* of the non-overlapping matches, leftmost first
RECURSIVE FindTextRuns(_, _)
FindTextRuns(text, start) ==
    LET open == Find(text, OpenTag, start)
    IN  IF open = -1 THEN << >>
        ELSE LET gt    == Find(text, << Gt >>, open + Len(OpenTag))
                 close == IF gt = -1 THEN -1 ELSE Find(text, CloseTag, gt + 1)
             IN  IF close = -1 THEN FindTextRuns(text, open + 1)
                 ELSE << Slice(text, gt + 1, close) >>
                      \o FindTextRuns(text, close + Len(CloseTag))

\* the class [A-Za-z0-9\s.,;:?!\'\"\-_&]
IsPlainChar(c) ==
    \/ IsUpper(c) \/ IsLower(c) \/ IsDigit(c) \/ IsSpace(c)
    \/ c \in {46, 44, 59, 58, 63, 33, 39, 34, 45, 95, 38}

\* re.findall(r'[...]{10,}', text_data): the maximal runs of at least 10
\* characters of the class
PlainRunEnd(text, i) ==
    MinOf({j \in i..Len(text) : j = Len(text) \/ ~IsPlainChar(text[j + 1])})

FindPlainRuns(text) ==
    LET starts == SelectSeq(Indices(text),
                            LAMBDA i : /\ IsPlainChar(text[i])
                                       /\ (i = 1 \/ ~IsPlainChar(text[i - 1]))
                                       /\ PlainRunEnd(text, i) - i + 1 >= 10)
    IN  [k \in 1..Len(starts) |-> SubSeq(text, starts[k], PlainRunEnd(text, starts[k]))]

\* lines 143-151
RECURSIVE KeepTextRuns(_)
KeepTextRuns(matches) ==
    IF matches = << >> THEN << >>
    ELSE LET text == Strip(Head(matches))
         IN  (IF Len(text) < 3 \/ StartsWith(text, XmlProlog) THEN << >> ELSE << text >>)
             \o KeepTextRuns(Tail(matches))

\* lines 157-159
RECURSIVE KeepPlainRuns(_)
KeepPlainRuns(matches) ==
    IF matches = << >> THEN << >>
    ELSE (IF Len(Strip(Head(matches))) >= 10 THEN << Strip(Head(matches)) >> ELSE << >>)
         \o KeepPlainRuns(Tail(matches))

\* Unique with a text compared only with the one kept last
RECURSIVE UniqueAdjacent(_, _)
UniqueAdjacent(text_content, unique_text) ==
    IF text_content = << >> THEN unique_text
    ELSE IF unique_text # << >> /\ Head(text_content) = unique_text[Len(unique_text)]
         THEN UniqueAdjacent(Tail(text_content), unique_text)
         ELSE UniqueAdjacent(Tail(text_content), Append(unique_text, Head(text_content)))

\* lines 162-168
RECURSIVE Unique(_, _)
Unique(text_content, unique_text) ==
    IF text_content = << >> THEN unique_text
    ELSE IF InSeq(Head(text_content), unique_text)
         THEN Unique(Tail(text_content), unique_text)
         ELSE Unique(Tail(text_content), Append(unique_text, Head(text_content)))

\* lines 137-159: both passes, before the duplicates are removed
TextCandidates(buf) ==
    LET text_data == Decode(buf)
    IN  KeepTextRuns(FindTextRuns(text_data, 0))
        \o KeepPlainRuns(FindPlainRuns(text_data))

extract_text_from_binary(buf) == Unique(TextCandidates(buf), << >>)

-----------------------------------------------------------------------------
(* distribute_images                                                       *)

\* line 341: i % len(slide_numbers) raises ZeroDivisionError on no slides
DistributeRaises(slides, count) == count > 0 /\ DOMAIN slides = {}

\* DistributeLoop with the slide chosen by the image number, not by i
RECURSIVE DistributeLoopByNumber(_, _, _, _)
DistributeLoopByNumber(slides, slide_numbers, i, count) ==
    IF i >= count THEN slides
    ELSE LET img_num   == i + 1
             slide_idx == img_num % Len(slide_numbers)
             slide_num == slide_numbers[slide_idx + 1]
             img_file  == ImageName(img_num, DotPng)
         IN  DistributeLoopByNumber([slides EXCEPT ![slide_num].images = Append(@, img_file)],
                                    slide_numbers, i + 1, count)

\* lines 337-348
RECURSIVE DistributeLoop(_, _, _, _)
DistributeLoop(slides, slide_numbers, i, count) ==
    IF i >= count THEN slides
    ELSE LET img_num   == i + 1
             slide_idx == i % Len(slide_numbers)
             slide_num == slide_numbers[slide_idx + 1]
             img_file  == ImageName(img_num, DotPng)
         IN  DistributeLoop([slides EXCEPT ![slide_num].images = Append(@, img_file)],
                            slide_numbers, i + 1, count)

distribute_images(slides, count) ==
    DistributeLoop(slides, SortedSeq(DOMAIN slides), 0, count)

-----------------------------------------------------------------------------
(* create_placeholder_slide: the slide part and its relationship part, as  *)
(* the values the markup carries                                           *)

Amp == 38                                              \* '&'
Lt == 60                                               \* '<'
AmpEntity == << 38, 97, 109, 112, 59 >>               \* "&amp;"
LtEntity  == << 38, 108, 116, 59 >>                   \* "&lt;"
GtEntity  == << 38, 103, 116, 59 >>                   \* "&gt;"
Ellipsis  == << 46, 46, 46 >>                         \* "..."

\* str.replace(old, new) for a one-character old
RECURSIVE Replace(_, _, _)
Replace(text, old, new) ==
    IF Len(text) = 0 THEN << >>
    ELSE IF Len(text) = 1 THEN (IF text[1] = old THEN new ELSE text)
    ELSE LET h == Len(text) \div 2
         IN  Replace(SubSeq(text, 1, h), old, new)
             \o Replace(SubSeq(text, h + 1, Len(text)), old, new)

\* .replace('&', '&amp;').replace('<', '&lt;').replace('>', '&gt;')
Sanitize(text) == Replace(Replace(Replace(text, Amp, AmpEntity), Lt, LtEntity), Gt, GtEntity)

\* lines 355-357
SlideTitleText(title) ==
    LET t == Sanitize(title)
    IN  IF Len(t) > 100 THEN Slice(t, 0, 97) \o Ellipsis ELSE t

\* lines 411-413
SlideBodyText(para) ==
    LET t == Sanitize(para)
    IN  IF Len(t) > 1000 THEN Slice(t, 0, 997) \o Ellipsis ELSE t

RId(n) == << 114, 73, 100 >> \o Str(n)                \* f"rId{n}"
MediaTarget(img_file) == << 46, 46, 47, 109, 101, 100, 105, 97, 47 >> \o img_file
                                                       \* f"../media/{img_file}"

\* create_placeholder_slide with a relationship for every image of the slide
create_placeholder_slideAllRels(slide_num, title, content_paragraphs, images) ==
    LET max_content_paragraphs == Min(8, Len(content_paragraphs))
        max_images == Min(4, Len(images))
        shown_paras == Slice(content_paragraphs, 0, max_content_paragraphs)
        shown_images == Slice(images, 0, max_images)
    IN  [slide_xml |->
            [group_id |-> 1,
             title_id |-> 2,
             title |-> SlideTitleText(title),
             texts |-> [i \in 1..Len(shown_paras) |->
                          [id |-> (i - 1) + 3, text |-> SlideBodyText(shown_paras[i])]],
             pics  |-> [i \in 1..Len(shown_images) |->
                          [id |-> (i - 1) + 20, embed |-> RId((i - 1) + 1)]]],
         slide_rels_xml |->
            [i \in 1..Len(images) |->
                [Id |-> RId((i - 1) + 1), Target |-> MediaTarget(images[i])]]]

\* create_placeholder_slide with the pictures numbered from 10
create_placeholder_slidePicIds(slide_num, title, content_paragraphs, images) ==
    LET max_content_paragraphs == Min(8, Len(content_paragraphs))
        max_images == Min(4, Len(images))
        shown_paras == Slice(content_paragraphs, 0, max_content_paragraphs)
        shown_images == Slice(images, 0, max_images)
    IN  [slide_xml |->
            [group_id |-> 1,
             title_id |-> 2,
             title |-> SlideTitleText(title),
             texts |-> [i \in 1..Len(shown_paras) |->
                          [id |-> (i - 1) + 3, text |-> SlideBodyText(shown_paras[i])]],
             pics  |-> [i \in 1..Len(shown_images) |->
                          [id |-> (i - 1) + 10, embed |-> RId((i - 1) + 1)]]],
         slide_rels_xml |->
            [i \in 1..Len(shown_images) |->
                [Id |-> RId((i - 1) + 1), Target |-> MediaTarget(shown_images[i])]]]

create_placeholder_slide(slide_num, title, content_paragraphs, images) ==
    LET max_content_paragraphs == Min(8, Len(content_paragraphs))
        max_images == Min(4, Len(images))
        shown_paras == Slice(content_paragraphs, 0, max_content_paragraphs)
        shown_images == Slice(images, 0, max_images)
    IN  [slide_xml |->
            [group_id |-> 1,
             title_id |-> 2,
             title |-> SlideTitleText(title),
             texts |-> [i \in 1..Len(shown_paras) |->
                          [id |-> (i - 1) + 3, text |-> SlideBodyText(shown_paras[i])]],
             pics  |-> [i \in 1..Len(shown_images) |->
                          [id |-> (i - 1) + 20, embed |-> RId((i - 1) + 1)]]],
         slide_rels_xml |->
            [i \in 1..Len(shown_images) |->
                [Id |-> RId((i - 1) + 1), Target |-> MediaTarget(shown_images[i])]]]

-----------------------------------------------------------------------------
(* create_pptx_structure and create_pptx                                   *)

RecoveredTitle(n) ==                                   \* f"Recovered Slide {n}"
    << 82, 101, 99, 111, 118, 101, 114, 101, 100, 32, 83, 108, 105, 100, 101, 32 >> \o Str(n)

SlidePart(n) ==                                        \* f"slides/slide{n}.xml"
    << 115, 108, 105, 100, 101, 115, 47, 115, 108, 105, 100, 101 >> \o Str(n)
    \o << 46, 120, 109, 108 >>

\* create_placeholder_image: a generated picture captioned with the name
PlaceholderImage(img_name) == [placeholder |-> TRUE, bytes |-> << >>, caption |-> img_name]

\* shutil.copy2 of a carved file
CopiedImage(bytes) == [placeholder |-> FALSE, bytes |-> bytes, caption |-> << >>]

\* lines 587-597: what slide number slide_num of the part is built from
PartSlideData(file_content, slide_num) ==
    IF slide_num \notin DOMAIN file_content
    THEN [title |-> RecoveredTitle(slide_num), content |-> << >>, images |-> << >>]
    ELSE file_content[slide_num]

\* lines 582-616: all_used_images
RECURSIVE AllUsedImages(_, _, _)
AllUsedImages(file_content, slide_num, end_slide) ==
    IF slide_num > end_slide THEN << >>
    ELSE PartSlideData(file_content, slide_num).images
         \o AllUsedImages(file_content, slide_num + 1, end_slide)

\* PartMedia with nothing made for a file the media store lacks
PartMediaCopyOnly(store, all_used_images) ==
    [img_file \in {all_used_images[j] : j \in 1..Len(all_used_images)} \cap DOMAIN store |->
        CopiedImage(store[img_file])]

\* lines 619-628: the part's ppt/media after the copy loop
PartMedia(store, all_used_images) ==
    [img_file \in {all_used_images[j] : j \in 1..Len(all_used_images)} |->
        IF img_file \in DOMAIN store THEN CopiedImage(store[img_file])
        ELSE PlaceholderImage(img_file)]

\* The part directory create_pptx_structure leaves behind; slide i of the
\* part (1-based) is slide number start_slide + i - 1 of file_content.
create_pptx_structure(store, file_content, part_num, start_slide, end_slide) ==
    LET n == end_slide - start_slide + 1
        built == [i \in 1..n |->
                    LET slide_num  == start_slide + (i - 1)
                        slide_data == PartSlideData(file_content, slide_num)
                    IN  create_placeholder_slide(slide_num, slide_data.title,
                                                 slide_data.content, slide_data.images)]
    IN  [part_num      |-> part_num,
         content_types |-> [i \in 1..n |-> SlidePart((i - 1) + 1)],
         sldIdLst      |-> [i \in 1..n |-> [id |-> 256 + (i - 1), rid |-> RId(1000 + (i - 1))]],
         pres_rels     |-> [i \in 1..n |->
                              [Id |-> RId(1000 + (i - 1)), Target |-> SlidePart((i - 1) + 1)]],
         slides        |-> [i \in 1..n |-> built[i].slide_xml],
         slide_rels    |-> [i \in 1..n |-> built[i].slide_rels_xml],
         media         |-> PartMedia(store, AllUsedImages(file_content, start_slide, end_slide))]

-----------------------------------------------------------------------------
(* main: the split of lines 716-742                                        *)

\* SlidesPerFile without the recalculation of line 721
SlidesPerFileAsGiven(total_slides, slides_per_file_arg, max_files) ==
    Min(slides_per_file_arg, total_slides)

\* lines 717-721
SlidesPerFile(total_slides, slides_per_file_arg, max_files) ==
    LET slides_per_file == Min(slides_per_file_arg, total_slides)
        desired_files   == Min(max_files,
                               (total_slides + slides_per_file - 1) \div slides_per_file)
    IN  (total_slides + desired_files - 1) \div desired_files

\* NumFiles with the ceiling taken as the quotient plus one
NumFilesPlusOne(total_slides, slides_per_file) ==
    total_slides \div slides_per_file + 1

\* line 722
NumFiles(total_slides, slides_per_file) ==
    (total_slides + slides_per_file - 1) \div slides_per_file

\* FileSlideNumbers with the end of the slice one too low
FileSlideNumbersShort(slide_numbers, i, slides_per_file, total_slides) ==
    Slice(slide_numbers, i * slides_per_file,
          Min((i + 1) * slides_per_file, total_slides) - 1)

\* line 730
FileSlideNumbers(slide_numbers, i, slides_per_file, total_slides) ==
    Slice(slide_numbers, i * slides_per_file, Min((i + 1) * slides_per_file, total_slides))

\* FileContent without slide_mapping: the groups under their own numbers
FileContentUnmapped(slides, file_slide_numbers) ==
    [num \in {file_slide_numbers[k] : k \in 1..Len(file_slide_numbers)} |-> slides[num]]

\* lines 739-742: slide_mapping and file_content
FileContent(slides, file_slide_numbers) ==
    [k \in 1..Len(file_slide_numbers) |-> slides[file_slide_numbers[k]]]

-----------------------------------------------------------------------------
(* Inputs                                                                  *)

\* a 1x1 greyscale PNG: signature, IHDR, IDAT, IEND
PngImage ==
    << 137, 80, 78, 71, 13, 10, 26, 10,
       0, 0, 0, 13, 73, 72, 68, 82, 0, 0, 0, 1, 0, 0, 0, 1, 8, 0, 0, 0, 0, 58, 126, 155, 85,
       0, 0, 0, 10, 73, 68, 65, 84, 120, 156, 99, 96, 0, 0, 0, 2, 0, 1, 72, 175, 164, 113,
       0, 0, 0, 0, 73, 69, 78, 68, 174, 66, 96, 130 >>

\* a baseline JPEG: SOI, APP0 (JFIF), SOF0, SOS, one data byte, EOI
JpegImage ==
    << 255, 216,
       255, 224, 0, 16, 74, 70, 73, 70, 0, 1, 1, 0, 0, 1, 0, 1, 0, 0,
       255, 192, 0, 11, 8, 0, 1, 0, 1, 1, 1, 17, 0,
       255, 218, 0, 8, 1, 1, 0, 0, 63, 0, 127,
       255, 217 >>

\* <a:t>Quarterly Report</a:t>
TextRun1 ==
    << 60, 97, 58, 116, 62, 81, 117, 97, 114, 116, 101, 114, 108, 121, 32, 82, 101, 112,
       111, 114, 116, 60, 47, 97, 58, 116, 62 >>

\* <a:t>Revenue grew this year</a:t>
TextRun2 ==
    << 60, 97, 58, 116, 62, 82, 101, 118, 101, 110, 117, 101, 32, 103, 114, 101, 119, 32,
       116, 104, 105, 115, 32, 121, 101, 97, 114, 60, 47, 97, 58, 116, 62 >>

\* the input files of the pipeline
InputFiles ==
    { << >>, TextRun1, TextRun1 \o TextRun2, PngImage, PngImage \o TextRun1,
      JpegImage \o TextRun1 \o TextRun2, PngImage \o JpegImage \o TextRun1 \o TextRun2 }

BodyText(k) == << 98, 111, 100, 121, 32, 116, 101, 120, 116, 32 >> \o Str(k)   \* f"body text {k}"

\* a text file of n titled paragraphs: "Slide 1\n\nbody text 1\n\nSlide 2\n\n..."
RECURSIVE DocText(_)
DocText(n) ==
    IF n = 0 THEN << >>
    ELSE (IF n = 1 THEN << >> ELSE DocText(n - 1) \o << NL, NL >>)
         \o SlideTitle(n) \o << NL, NL >> \o BodyText(n)

MaxPairs == 6
PairCounts == (0..MaxPairs) \cup {37}

NoTextFile == [given |-> FALSE, exists |-> FALSE, content |-> << >>]
MissingTextFile == [given |-> TRUE, exists |-> FALSE, content |-> << >>]
TextFile(content) == [given |-> TRUE, exists |-> TRUE, content |-> content]

TextFileArgs == {NoTextFile, MissingTextFile} \cup {TextFile(DocText(n)) : n \in PairCounts}

MaxSlideCap == 3
MaxFileCap == 3
SlideCaps == (1..MaxSlideCap) \cup {15}
FileCaps == (1..MaxFileCap) \cup {10}
MaxSlidesArgs == {3, 100}

\* setup_argparse: the values main reads
ArgSets ==
    [max_slides : MaxSlidesArgs, slides_per_file : SlideCaps, max_files : FileCaps,
     extract_dir : BOOLEAN, text_file : TextFileArgs]

NoScan == ScanStart(EmptyDict)
NoPlan == [slide_numbers |-> << >>, total_slides |-> 0, slides_per_file |-> 0,
           num_files |-> 0, i |-> 0]

-----------------------------------------------------------------------------
(* main                                                                    *)

\* lines 672-687: the output directory and the extract directory exist
Init ==
    /\ pc = "carve"
    /\ args \in ArgSets
    /\ data \in InputFiles
    /\ text_paragraphs = << >>
    /\ slides_content = EmptyDict
    /\ image_count = 0
    /\ media = EmptyDict
    /\ scan = NoScan
    /\ workdir = [exists |-> TRUE, parts |-> {}]
    /\ plan = NoPlan
    /\ archives = EmptyDict
    /\ result = "running"

\* line 689
MainCarve ==
    /\ pc = "carve"
    /\ LET st == extract_images_from_binary(data, media)
       IN  /\ scan' = st
           /\ media' = st.media
           /\ image_count' = st.png_count + st.jpg_count
    /\ pc' = "text"
    /\ UNCHANGED << args, data, text_paragraphs, slides_content, workdir, plan, archives,
                    result >>

\* lines 692-698
MainText ==
    /\ pc = "text"
    /\ text_paragraphs' =
          IF args.text_file.given /\ args.text_file.exists
          THEN load_extracted_text_file(args.text_file.content)
          ELSE extract_text_from_binary(data)
    /\ pc' = "organize"
    /\ UNCHANGED << args, data, slides_content, image_count, media, scan, workdir, plan,
                    archives, result >>

\* lines 701-702
MainOrganize ==
    /\ pc = "organize"
    /\ slides_content' = organize_text_into_slides(text_paragraphs, Min(100, args.max_slides))
    /\ pc' = "distribute"
    /\ UNCHANGED << args, data, text_paragraphs, image_count, media, scan, workdir, plan,
                    archives, result >>

\* line 705
MainDistribute ==
    /\ pc = "distribute"
    /\ IF DistributeRaises(slides_content, image_count)
       THEN /\ result' = "ZeroDivisionError"
            /\ pc' = "finally"
            /\ UNCHANGED slides_content
       ELSE /\ slides_content' = distribute_images(slides_content, image_count)
            /\ pc' = "split"
            /\ UNCHANGED result
    /\ UNCHANGED << args, data, text_paragraphs, image_count, media, scan, workdir, plan,
                    archives >>

\* lines 708-726
MainSplit ==
    /\ pc = "split"
    /\ LET slide_numbers == SortedSeq(DOMAIN slides_content)
           total_slides  == Len(slide_numbers)
       IN  IF total_slides = 0
           THEN /\ result' = "return 1"
                /\ pc' = "finally"
                /\ UNCHANGED plan
           ELSE LET slides_per_file ==
                        SlidesPerFile(total_slides, args.slides_per_file, args.max_files)
                IN  /\ plan' = [slide_numbers   |-> slide_numbers,
                                total_slides    |-> total_slides,
                                slides_per_file |-> slides_per_file,
                                num_files       |-> NumFiles(total_slides, slides_per_file),
                                i               |-> 0]
                    /\ pc' = "build"
                    /\ UNCHANGED result
    /\ UNCHANGED << args, data, text_paragraphs, slides_content, image_count, media, scan,
                    workdir, archives >>

\* What can go wrong in one turn of the loop: create_pptx_structure or
\* create_pptx raising an OSError.
BuildOutcomes == {"ok", "build raises", "serialize raises"}

\* lines 729-761: one turn of the loop
MainBuild ==
    /\ pc = "build"
    /\ plan.i < plan.num_files
    /\ \E outcome \in BuildOutcomes :
          LET i == plan.i
              file_slide_numbers ==
                  FileSlideNumbers(plan.slide_numbers, i, plan.slides_per_file,
                                   plan.total_slides)
              file_content == FileContent(slides_content, file_slide_numbers)
              pptx_dir == create_pptx_structure(media, file_content, i + 1, 1,
                                                Len(file_slide_numbers))
              output_file == [pptx_dir EXCEPT !.part_num = i + 1]
          IN  IF file_slide_numbers = << >>
              THEN /\ plan' = [plan EXCEPT !.i = i + 1]
                   /\ UNCHANGED << workdir, archives, result, pc >>
              ELSE IF outcome = "build raises"
              THEN /\ workdir' = [workdir EXCEPT !.parts = @ \cup {i + 1}]
                   /\ result' = "OSError in create_pptx_structure"
                   /\ pc' = "finally"
                   /\ UNCHANGED << plan, archives >>
              ELSE IF outcome = "serialize raises"
              THEN /\ workdir' = [workdir EXCEPT !.parts = @ \cup {i + 1}]
                   /\ result' = "OSError in create_pptx"
                   /\ pc' = "finally"
                   /\ UNCHANGED << plan, archives >>
              ELSE /\ archives' = ((i + 1) :>
                                     [file_slide_numbers |-> file_slide_numbers,
                                      package |-> output_file]) @@ archives
                   /\ workdir' = IF args.extract_dir
                                 THEN [workdir EXCEPT !.parts = @ \cup {i + 1}]
                                 ELSE workdir
                   /\ plan' = [plan EXCEPT !.i = i + 1]
                   /\ UNCHANGED << result, pc >>
    /\ UNCHANGED << args, data, text_paragraphs, slides_content, image_count, media, scan >>

\* lines 763-766
MainReturn ==
    /\ pc = "build"
    /\ plan.i >= plan.num_files
    /\ result' = "return 0"
    /\ pc' = "finally"
    /\ UNCHANGED << args, data, text_paragraphs, slides_content, image_count, media, scan,
                    workdir, plan, archives >>

\* MainFinally with the cleanup done only after a normal return
MainFinallyOnReturn ==
    /\ pc = "finally"
    /\ IF ~args.extract_dir /\ workdir.exists /\ result = "return 0"
       THEN /\ workdir' = [exists |-> FALSE, parts |-> {}]
            /\ media' = EmptyDict
       ELSE UNCHANGED << workdir, media >>
    /\ pc' = "end"
    /\ UNCHANGED << args, data, text_paragraphs, slides_content, image_count, scan, plan,
                    archives, result >>

\* lines 767-770
MainFinally ==
    /\ pc = "finally"
    /\ IF ~args.extract_dir /\ workdir.exists
       THEN /\ workdir' = [exists |-> FALSE, parts |-> {}]
            /\ media' = EmptyDict
       ELSE UNCHANGED << workdir, media >>
    /\ pc' = "end"
    /\ UNCHANGED << args, data, text_paragraphs, slides_content, image_count, scan, plan,
                    archives, result >>

Next ==
    \/ MainCarve
    \/ MainText
    \/ MainOrganize
    \/ MainDistribute
    \/ MainSplit
    \/ MainBuild
    \/ MainReturn
    \/ MainFinally

Spec == Init /\ [][Next]_vars

-----------------------------------------------------------------------------
(* The segmenter on its own: organize_text_into_slides on fragment lists,  *)
(* and on the paragraphs load_extracted_text_file reads from a text file.  *)

FragmentPool ==
    << << 83, 108, 105, 100, 101, 32, 49 >>,                       \* "Slide 1"
       << 65, 71, 69, 78, 68, 65 >>,                               \* "AGENDA"
       << 84, 111, 112, 105, 99, 58 >>,                            \* "Topic:"
       << 75, 101, 121, 32, 80, 111, 105, 110, 116, 115 >>,        \* "Key Points"
       << 78, 101, 120, 116, 32, 83, 116, 101, 112, 115, 32, 78, 111, 119 >>,
                                                                   \* "Next Steps Now"
       << 102, 105, 114, 115, 116, 32, 98, 111, 100, 121, 32, 116, 101, 120, 116 >>,
                                                                   \* "first body text"
       << 115, 101, 99, 111, 110, 100, 32, 98, 111, 100, 121, 32, 116, 101, 120, 116, 46 >>,
                                                                   \* "second body text."
       << 97, 98, 99 >>,                                           \* "abc"
       \* "This paragraph is long enough that it can never be taken for a title"
       << 84, 104, 105, 115, 32, 112, 97, 114, 97, 103, 114, 97, 112, 104, 32, 105, 115, 32,
          108, 111, 110, 103, 32, 101, 110, 111, 117, 103, 104, 32, 116, 104, 97, 116, 32,
          105, 116, 32, 99, 97, 110, 32, 110, 101, 118, 101, 114, 32, 98, 101, 32, 116, 97,
          107, 101, 110, 32, 102, 111, 114, 32, 97, 32, 116, 105, 116, 108, 101 >>,
       << 99, 108, 111, 115, 105, 110, 103, 32, 114, 101, 109, 97, 114, 107, 115 >> >>
                                                                   \* "closing remarks"

Fragments == {FragmentPool[i] : i \in 1..Len(FragmentPool)}

\* a document of titled slides: "Slide 1", "first body text", "AGENDA",
\* "second body text.", "Topic:", the long paragraph, "Key Points",
\* "Next Steps Now", "closing remarks"
BaseDoc == << 1, 6, 2, 7, 3, 9, 4, 5, 10 >>

\* the fragments of BaseDoc at the positions X, in order
SubDoc(X) ==
    LET at == SortedSeq(X)
    IN  [k \in 1..Len(at) |-> FragmentPool[BaseDoc[at[k]]]]

MaxFree == 3
FragmentLists ==
    UNION {[1..n -> Fragments] : n \in 0..MaxFree}
    \cup {SubDoc(X) : X \in SUBSET (1..Len(BaseDoc))}

MaxSegSlides == 3
SegMaxSlides == (1..MaxSegSlides) \cup {10}

TextLines ==
    { << 79, 118, 101, 114, 118, 105, 101, 119, 58 >>,             \* "Overview:"
      << 73, 110, 116, 114, 111, 32, 108, 105, 110, 101, 46 >>,    \* "Intro line."
      << 68, 101, 116, 97, 105, 108, 115, 58 >>,                   \* "Details:"
      \* "More text here that is long enough."
      << 77, 111, 114, 101, 32, 116, 101, 120, 116, 32, 104, 101, 114, 101, 32, 116, 104,
         97, 116, 32, 105, 115, 32, 108, 111, 110, 103, 32, 101, 110, 111, 117, 103, 104,
         46 >> }

LineSeparators == { << NL >>, << NL, NL >> }

\* the texts of exactly k lines
RECURSIVE TextsOfLines(_)
TextsOfLines(k) ==
    IF k = 0 THEN { << >> }
    ELSE IF k = 1 THEN TextLines
    ELSE {t \o sep \o line : t \in TextsOfLines(k - 1), sep \in LineSeparators,
                             line \in TextLines}

MaxLines == 4
TextContents == UNION {TextsOfLines(k) : k \in 0..MaxLines}

SegArgs(max_slides, text_file) ==
    [max_slides |-> max_slides, slides_per_file |-> 15, max_files |-> 10,
     extract_dir |-> FALSE, text_file |-> text_file]

InitSeg ==
    /\ \/ /\ pc = "load"
          /\ \E content \in TextContents, max_slides \in {2, 10} :
                args = SegArgs(max_slides, TextFile(content))
          /\ text_paragraphs = << >>
       \/ /\ pc = "organize"
          /\ \E max_slides \in SegMaxSlides : args = SegArgs(max_slides, NoTextFile)
          /\ text_paragraphs \in FragmentLists
    /\ data = << >>
    /\ slides_content = EmptyDict
    /\ image_count = 0
    /\ media = EmptyDict
    /\ scan = NoScan
    /\ workdir = [exists |-> TRUE, parts |-> {}]
    /\ plan = NoPlan
    /\ archives = EmptyDict
    /\ result = "running"

\* load_extracted_text_file(text_file_path)
SegLoad ==
    /\ pc = "load"
    /\ text_paragraphs' = load_extracted_text_file(args.text_file.content)
    /\ pc' = "organize"
    /\ UNCHANGED << args, data, slides_content, image_count, media, scan, workdir, plan,
                    archives, result >>

\* organize_text_into_slides(paragraphs, max_slides)
SegOrganize ==
    /\ pc = "organize"
    /\ slides_content' = organize_text_into_slides(text_paragraphs, args.max_slides)
    /\ pc' = "done"
    /\ UNCHANGED << args, data, text_paragraphs, image_count, media, scan, workdir, plan,
                    archives, result >>

NextSeg == SegLoad \/ SegOrganize

SpecSeg == InitSeg /\ [][NextSeg]_vars

-----------------------------------------------------------------------------
(* The carver on its own, one turn of its loops at a time.                 *)

\* a second 1x1 PNG, with a white pixel
PngImage2 ==
    << 137, 80, 78, 71, 13, 10, 26, 10,
       0, 0, 0, 13, 73, 72, 68, 82, 0, 0, 0, 1, 0, 0, 0, 1, 8, 0, 0, 0, 0, 58, 126, 155, 85,
       0, 0, 0, 10, 73, 68, 65, 84, 120, 156, 99, 248, 15, 0, 1, 1, 1, 0, 177, 56, 246, 20,
       0, 0, 0, 0, 73, 69, 78, 68, 174, 66, 96, 130 >>

\* PngImage with a tEXt chunk after IDAT whose text is the 8 bytes
\* IEND\xaeB\x60\x82: a well-formed PNG
PngWithText ==
    << 137, 80, 78, 71, 13, 10, 26, 10,
       0, 0, 0, 13, 73, 72, 68, 82, 0, 0, 0, 1, 0, 0, 0, 1, 8, 0, 0, 0, 0, 58, 126, 155, 85,
       0, 0, 0, 10, 73, 68, 65, 84, 120, 156, 99, 96, 0, 0, 0, 2, 0, 1, 72, 175, 164, 113,
       0, 0, 0, 10, 116, 69, 88, 116, 107, 0, 73, 69, 78, 68, 174, 66, 96, 130, 223, 112, 61,
       155,
       0, 0, 0, 0, 73, 69, 78, 68, 174, 66, 96, 130 >>

\* the start of a PNG that was cut off before its IEND chunk
PngHead ==
    << 137, 80, 78, 71, 13, 10, 26, 10,
       0, 0, 0, 13, 73, 72, 68, 82, 0, 0, 0, 1, 0, 0, 0, 1, 8, 0, 0, 0, 0, 58, 126, 155, 85,
       0, 0, 0, 10, 73, 68, 65, 84, 120, 156, 99, 96, 0, 0, 0, 2, 0, 1, 72, 175, 164, 113 >>

Noise == << 0, 17, 200, 3 >>

\* the well-formed PNG images the buffers are made of
WellFormedPngs == {PngImage, PngImage2, PngWithText}

CarveSegments ==
    WellFormedPngs \cup {PngHead, Noise, JpegImage, png_header, iend_marker}

RECURSIVE Concat(_)
Concat(parts) == IF parts = << >> THEN << >> ELSE Head(parts) \o Concat(Tail(parts))

MaxSegments == 3
CarveBuffers == {Concat(parts) : parts \in UNION {[1..n -> CarveSegments] : n \in 0..MaxSegments}}

InitCarve ==
    /\ pc = "png"
    /\ data \in CarveBuffers
    /\ scan = ScanStart(EmptyDict)
    /\ media = EmptyDict
    /\ image_count = 0
    /\ args = SegArgs(100, NoTextFile)
    /\ text_paragraphs = << >>
    /\ slides_content = EmptyDict
    /\ workdir = [exists |-> TRUE, parts |-> {}]
    /\ plan = NoPlan
    /\ archives = EmptyDict
    /\ result = "running"

\* lines 70-92, one turn
CarvePng ==
    /\ pc = "png"
    /\ ~scan.done
    /\ scan' = PngScanStep(data, scan)
    /\ media' = scan'.media
    /\ UNCHANGED << pc, args, data, text_paragraphs, slides_content, image_count, workdir,
                    plan, archives, result >>

\* lines 94-97
CarveJpegStart ==
    /\ pc = "png"
    /\ scan.done
    /\ scan' = JpegScanStart(scan)
    /\ pc' = "jpg"
    /\ UNCHANGED << args, data, text_paragraphs, slides_content, image_count, media,
                    workdir, plan, archives, result >>

\* lines 99-121, one turn
CarveJpeg ==
    /\ pc = "jpg"
    /\ ~scan.done
    /\ scan' = JpegScanStep(data, scan)
    /\ media' = scan'.media
    /\ UNCHANGED << pc, args, data, text_paragraphs, slides_content, image_count, workdir,
                    plan, archives, result >>

\* lines 123-124
CarveReturn ==
    /\ pc = "jpg"
    /\ scan.done
    /\ image_count' = scan.png_count + scan.jpg_count
    /\ pc' = "done"
    /\ UNCHANGED << args, data, text_paragraphs, slides_content, media, scan, workdir,
                    plan, archives, result >>

NextCarve == CarvePng \/ CarveJpegStart \/ CarveJpeg \/ CarveReturn

SpecCarve == InitCarve /\ [][NextCarve]_vars

-----------------------------------------------------------------------------
(* The segmenter's numbering                                               *)

\* the working paragraphs of the run and what lines 259-318 make of them
WorkingParagraphs ==
    LimitParagraphs(FilterParagraphs(text_paragraphs, 1, << >>), args.max_slides)

\* C1: the slide numbers organize_text_into_slides returns are exactly 1..K
\* for some K <= max_slides, with no gap, on the primary and on the fallback
\* path, truncated or not.
C1_DenseNumbers ==
    pc = "done" => \E K \in 0..args.max_slides : DOMAIN slides_content = 1..K

\* A run on the primary path in which a title without content was skipped
\* and the groups were cut down to max_slides.
C1_Witness ==
    /\ pc = "done"
    /\ LET title_indices == TitleIndices(WorkingParagraphs, args.max_slides)
           groups        == SegmentParagraphs(text_paragraphs, args.max_slides)
       IN  /\ ~UsesFallback(title_indices)
           /\ Cardinality(DOMAIN groups) < Len(title_indices)
           /\ Cardinality(DOMAIN groups) > args.max_slides
    /\ DOMAIN slides_content = 1..args.max_slides

-----------------------------------------------------------------------------
(* The scenario of the two headed paragraphs                               *)

Overview == << 79, 118, 101, 114, 118, 105, 101, 119, 58 >>        \* "Overview:"
IntroLine == << 73, 110, 116, 114, 111, 32, 108, 105, 110, 101, 46 >>  \* "Intro line."
Details == << 68, 101, 116, 97, 105, 108, 115, 58 >>               \* "Details:"
\* "More text here that is long enough."
MoreText ==
    << 77, 111, 114, 101, 32, 116, 101, 120, 116, 32, 104, 101, 114, 101, 32, 116, 104,
       97, 116, 32, 105, 115, 32, 108, 111, 110, 103, 32, 101, 110, 111, 117, 103, 104,
       46 >>

\* "Overview:\nIntro line.\n\nDetails:\nMore text here that is long enough."
ScenarioText == Overview \o << NL >> \o IntroLine \o << NL, NL >> \o Details \o << NL >> \o MoreText

ScenarioRun ==
    /\ pc = "done"
    /\ args.text_file = TextFile(ScenarioText)
    /\ args.max_slides = 10

-----------------------------------------------------------------------------
(* The split into archives                                                 *)

\* the slide numbers of archive k and how many there are
ArchiveSlides(k) == archives[k].file_slide_numbers
ArchiveSize(k) == Len(ArchiveSlides(k))

RECURSIVE SumOfSizes(_)
SumOfSizes(ks) ==
    IF ks = {} THEN 0
    ELSE LET k == CHOOSE x \in ks : TRUE IN ArchiveSize(k) + SumOfSizes(ks \ {k})

\* the slide numbers of archives 1..n, one after the other
RECURSIVE SlidesUpTo(_)
SlidesUpTo(n) == IF n = 0 THEN << >> ELSE SlidesUpTo(n - 1) \o ArchiveSlides(n)

TotalSlides == Cardinality(DOMAIN slides_content)

\* the least q with q * b >= a
CeilDiv(a, b) == CHOOSE q \in 0..a : q * b >= a /\ (q - 1) * b < a

\* C2: a run that returns 0 has emitted N archives with N <= max_files and
\* N <= T, whose slide counts sum to T; every slide is in exactly one
\* archive.
C2_Partition ==
    result = "return 0" =>
        LET N == Cardinality(DOMAIN archives)
        IN  /\ DOMAIN archives = 1..N
            /\ N <= args.max_files
            /\ N <= TotalSlides
            /\ SumOfSizes(DOMAIN archives) = TotalSlides
            /\ SlidesUpTo(N) = SortedSeq(DOMAIN slides_content)

\* A finished run in which max_files cut the number of archives and the
\* last archive is smaller than the first.
C2_Witness ==
    /\ result = "return 0"
    /\ pc = "end"
    /\ Cardinality(DOMAIN archives) = args.max_files
    /\ args.max_files * args.slides_per_file < TotalSlides
    /\ ArchiveSize(args.max_files) < ArchiveSize(1)

\* C3: the run computes targetFileCount = min(F, ceil(T/S)), slidesPerFile =
\* ceil(T/targetFileCount), N = ceil(T/slidesPerFile) and archive k holds the
\* k-th block of slidesPerFile slides in ascending number, the last block
\* what is left; T = 37, S = 15, F = 10 gives blocks of 13, 13 and 11.
C3_Blocks ==
    result = "return 0" =>
        LET T               == TotalSlides
            targetFileCount == Min(args.max_files, CeilDiv(T, args.slides_per_file))
            slidesPerFile   == CeilDiv(T, targetFileCount)
            N               == CeilDiv(T, slidesPerFile)
            slide_numbers   == SortedSeq(DOMAIN slides_content)
        IN  /\ plan.slides_per_file = slidesPerFile
            /\ plan.num_files = N
            /\ DOMAIN archives = 1..N
            /\ \A k \in 1..N :
                  ArchiveSlides(k) =
                      SubSeq(slide_numbers, (k - 1) * slidesPerFile + 1,
                             IF k < N THEN k * slidesPerFile ELSE T)
            /\ (T = 37 /\ args.slides_per_file = 15 /\ args.max_files = 10) =>
                  /\ slidesPerFile = 13
                  /\ [k \in 1..N |-> ArchiveSize(k)] = << 13, 13, 11 >>

\* The scenario: 37 slides, 15 per file, at most 10 files.
C3_Witness ==
    /\ result = "return 0"
    /\ TotalSlides = 37
    /\ args.slides_per_file = 15
    /\ args.max_files = 10
    /\ DOMAIN archives = 1..3

\* C4, as claimed: no archive holds more than slides_per_file slides.
C4_Bounded ==
    \A k \in DOMAIN archives : ArchiveSize(k) <= args.slides_per_file

-----------------------------------------------------------------------------
(* The images of an archive                                                *)

\* the file a relationship of a slide points at: Target without "../media/"
TargetFile(rel) == Drop(rel.Target, Len(MediaTarget(<< >>)))

\* C5: in every archive, each r:embed of a slide names exactly one
\* Relationship of the slide's relationship part, and the file every such
\* Relationship points at is in the archive's ppt/media: the carved file
\* where the media store has one of that name, a placeholder where not.
C5_ImagesResolve ==
    \A k \in DOMAIN archives :
        LET package == archives[k].package
        IN  \A i \in 1..Len(package.slides) :
               LET rels == package.slide_rels[i]
               IN  /\ \A j \in 1..Len(package.slides[i].pics) :
                         Cardinality({r \in 1..Len(rels) :
                                         rels[r].Id = package.slides[i].pics[j].embed}) = 1
                   /\ \A r \in 1..Len(rels) :
                         LET img_file == TargetFile(rels[r])
                         IN  /\ rels[r].Target = MediaTarget(img_file)
                             /\ img_file \in DOMAIN package.media
                             /\ IF img_file \in DOMAIN scan.media
                                THEN package.media[img_file] = CopiedImage(scan.media[img_file])
                                ELSE package.media[img_file] = PlaceholderImage(img_file)

\* An archive with a slide that shows a carved image and a placeholder.
C5_Witness ==
    \E k \in DOMAIN archives :
        LET package == archives[k].package
        IN  \E i \in 1..Len(package.slides) :
               /\ Len(package.slides[i].pics) >= 2
               /\ \E r1, r2 \in 1..Len(package.slide_rels[i]) :
                     /\ TargetFile(package.slide_rels[i][r1]) \in DOMAIN scan.media
                     /\ TargetFile(package.slide_rels[i][r2]) \notin DOMAIN scan.media
                     /\ package.media[TargetFile(package.slide_rels[i][r2])].placeholder

-----------------------------------------------------------------------------
(* How main ends                                                           *)

\* C6, as claimed: when the segmenter yields no slide group, main ends with
\* return value 1 and no archive, whatever the number of carved images.
C6_EmptyResult ==
    (pc = "end" /\ DOMAIN slides_content = {}) =>
        (result = "return 1" /\ archives = EmptyDict)

BuildFailed == result \in {"OSError in create_pptx_structure", "OSError in create_pptx"}

\* C7, as claimed: when building or serializing archive i of N fails, the
\* archives i+1..N are built and serialized all the same.
C7_BatchContinues ==
    (pc = "end" /\ BuildFailed) =>
        \A k \in (plan.i + 2)..plan.num_files : k \in DOMAIN archives

\* C8, as claimed: the working directory, temporary or caller-supplied, is
\* gone when main ends, on every exit path.
C8_AlwaysRemoved ==
    pc = "end" => ~workdir.exists

\* C8, amended: a temporary working directory is gone when main ends, on
\* every exit path (return 0, return 1, an exception on the way); a
\* caller-supplied working directory is kept on every exit path.
C8_TemporaryRemoved ==
    pc = "end" => (workdir.exists <=> args.extract_dir)

\* A run on a temporary directory that ended in an exception while
\* building an archive after the first.
C8_Witness ==
    /\ pc = "end"
    /\ ~args.extract_dir
    /\ BuildFailed
    /\ archives # EmptyDict
    /\ ~workdir.exists

-----------------------------------------------------------------------------
(* What the carver recovers                                                *)

\* the 0-based offsets at which sub occurs in data
Occurrences(sub) ==
    {i \in 0..(Len(data) - Len(sub)) : Slice(data, i, i + Len(sub)) = sub}

\* the well-formed PNG images embedded in data, as byte ranges
EmbeddedPngs ==
    {r \in {[start |-> i, stop |-> i + Len(img)] :
               i \in Occurrences(png_header), img \in WellFormedPngs} :
        Slice(data, r.start, r.stop) \in WellFormedPngs}

NonOverlapping(ranges) ==
    \A r1, r2 \in ranges : r1 = r2 \/ r1.stop <= r2.start \/ r2.stop <= r1.start

\* The carver wrote one PNG file per embedded image, in the order of the
\* images, each with the bytes of its image.
RecoveredExactly ==
    LET starts == SortedSeq({r.start : r \in EmbeddedPngs})
        N      == Len(starts)
    IN  /\ scan.png_count = N
        /\ \A k \in 1..N :
              /\ ImageName(k, DotPng) \in DOMAIN media
              /\ \E r \in EmbeddedPngs :
                    /\ r.start = starts[k]
                    /\ media[ImageName(k, DotPng)] = Slice(data, r.start, r.stop)

\* C10, as claimed: from a buffer that holds N well-formed PNG images, no
\* two overlapping, among other bytes, the carver recovers exactly N PNG
\* images, each byte for byte the embedded image.
C10_ExactRecovery ==
    (pc = "done" /\ NonOverlapping(EmbeddedPngs)) => RecoveredExactly

\* The PNG signature occurs only where an embedded image starts, the bytes
\* IEND\xaeB\x60\x82 only where one ends, and the decoder opens every one.
MarkersOnlyAtImages ==
    /\ Occurrences(png_header) = {r.start : r \in EmbeddedPngs}
    /\ {i + Len(iend_marker) : i \in Occurrences(iend_marker)} = {r.stop : r \in EmbeddedPngs}
    /\ \A r \in EmbeddedPngs : PngAccepts(Slice(data, r.start, r.stop))

\* C10, amended: from a buffer that holds N well-formed PNG images the
\* decoder opens, no two overlapping, in which the 8-byte signature occurs
\* only at the start of those images and the 8 bytes IEND\xaeB\x60\x82 only
\* at their end, the carver recovers exactly N PNG images, each byte for
\* byte the embedded image.
C10_CleanRecovery ==
    (pc = "done" /\ NonOverlapping(EmbeddedPngs) /\ MarkersOnlyAtImages) => RecoveredExactly

\* Two different images with other bytes around them, both recovered.
C10_Witness ==
    /\ pc = "done"
    /\ MarkersOnlyAtImages
    /\ Cardinality(EmbeddedPngs) = 2
    /\ \E r \in EmbeddedPngs : r.start > 0
    /\ scan.png_count = 2
    /\ media[ImageName(1, DotPng)] # media[ImageName(2, DotPng)]

-----------------------------------------------------------------------------
(* A PNG candidate without an end marker                                   *)

\* the signature at 0-based offset o of data has no IEND marker after it
Unterminated(o) ==
    /\ o >= 0
    /\ Slice(data, o, o + Len(png_header)) = png_header
    /\ Find(data, iend_marker, o) = -1

\* C11: when the PNG signature the scan finds has no IEND marker anywhere
\* after it, the turn of the loop writes nothing, leaves the counters as
\* they are, raises nothing and goes on scanning one byte further.
C11_CandidateDropped ==
    [][(pc = "png" /\ ~scan.done /\ Unterminated(Find(data, png_header, scan.pos))) =>
          /\ media' = media
          /\ scan'.media = scan.media
          /\ scan'.png_count = scan.png_count
          /\ scan'.jpg_count = scan.jpg_count
          /\ scan'.carved = scan.carved
          /\ scan'.pos = Find(data, png_header, scan.pos) + 1
          /\ ~scan'.done
          /\ pc' = "png"]_vars

\* The scan has just passed a signature without an end marker, after it
\* had carved an image further left.
C11_Witness ==
    /\ pc = "png"
    /\ scan.png_count = 1
    /\ Unterminated(scan.pos - 1)
    /\ \A c \in 1..Len(scan.carved) : scan.carved[c].start < scan.pos - 1
    /\ scan.media = media

-----------------------------------------------------------------------------
(* The text extractor on its own: the two passes, the removal of           *)
(* duplicates, and a second run on the same buffer.                        *)

\* <a:t>Hi</a:t>
ShortRun == << 60, 97, 58, 116, 62, 72, 105, 60, 47, 97, 58, 116, 62 >>

\* <a:t>Agenda</a:t>
MidRun == << 60, 97, 58, 116, 62, 65, 103, 101, 110, 100, 97, 60, 47, 97, 58, 116, 62 >>

\* <a:t><?xml version</a:t>
PrologRun ==
    << 60, 97, 58, 116, 62, 60, 63, 120, 109, 108, 32, 118, 101, 114, 115, 105, 111, 110,
       60, 47, 97, 58, 116, 62 >>

\* \x00Quarterly Report\x00
PlainText ==
    << 0, 81, 117, 97, 114, 116, 101, 114, 108, 121, 32, 82, 101, 112, 111, 114, 116, 0 >>

\* <a:t> Revenue grew this year </a:t>
PaddedRun ==
    << 60, 97, 58, 116, 62, 32, 82, 101, 118, 101, 110, 117, 101, 32, 103, 114, 101, 119,
       32, 116, 104, 105, 115, 32, 121, 101, 97, 114, 32, 60, 47, 97, 58, 116, 62 >>

TextSegments ==
    {TextRun1, TextRun2, ShortRun, MidRun, PrologRun, PlainText, PaddedRun, Noise}

MaxTextSegments == 3
TextBuffers ==
    {Concat(parts) : parts \in UNION {[1..n -> TextSegments] : n \in 0..MaxTextSegments}}

InitText ==
    /\ pc = "collect"
    /\ data \in TextBuffers
    /\ text_paragraphs = << >>
    /\ args = SegArgs(100, NoTextFile)
    /\ slides_content = EmptyDict
    /\ image_count = 0
    /\ media = EmptyDict
    /\ scan = NoScan
    /\ workdir = [exists |-> TRUE, parts |-> {}]
    /\ plan = NoPlan
    /\ archives = EmptyDict
    /\ result = "running"

\* lines 130-159: text_content after both passes
TextCollect ==
    /\ pc = "collect"
    /\ text_paragraphs' = TextCandidates(data)
    /\ pc' = "dedup"
    /\ UNCHANGED << args, data, slides_content, image_count, media, scan, workdir, plan,
                    archives, result >>

\* lines 162-171: unique_text
TextDedup ==
    /\ pc = "dedup"
    /\ text_paragraphs' = Unique(text_paragraphs, << >>)
    /\ pc' = "extracted"
    /\ UNCHANGED << args, data, slides_content, image_count, media, scan, workdir, plan,
                    archives, result >>

\* extract_text_from_binary called again on the same file
TextRerun ==
    /\ pc = "extracted"
    /\ text_paragraphs' = extract_text_from_binary(data)
    /\ pc' = "extracted again"
    /\ UNCHANGED << args, data, slides_content, image_count, media, scan, workdir, plan,
                    archives, result >>

NextText == TextCollect \/ TextDedup \/ TextRerun

SpecText == InitText /\ [][NextText]_vars

\* the elements of list at their first occurrence, in order
FirstOccurrences(list) ==
    LET first == SelectSeq(Indices(list),
                           LAMBDA i : \A j \in 1..(i - 1) : list[j] # list[i])
    IN  [k \in 1..Len(first) |-> list[first[k]]]

\* C12: extract_text_from_binary returns the candidates of both passes,
\* markup runs first, with every text that occurred earlier removed: no two
\* results are equal, the order is that of first occurrence, removing
\* duplicates from the result changes nothing, and a second run on the same
\* buffer returns the same list.
C12_FirstOccurrences ==
    pc \in {"extracted", "extracted again"} =>
        /\ text_paragraphs = FirstOccurrences(TextCandidates(data))
        /\ \A i, j \in 1..Len(text_paragraphs) :
              text_paragraphs[i] = text_paragraphs[j] => i = j
        /\ Unique(text_paragraphs, << >>) = text_paragraphs

\* A second run over a buffer whose candidates repeat a text with another
\* text in between.
C12_Witness ==
    /\ pc = "extracted again"
    /\ Len(text_paragraphs) >= 2
    /\ LET candidates == TextCandidates(data)
       IN  \E i, j \in 1..Len(candidates) :
              /\ i + 1 < j
              /\ candidates[i] = candidates[j]
              /\ candidates[i + 1] # candidates[i]

-----------------------------------------------------------------------------
(* One slide group on its own: distribute_images and the archive           *)
(* create_pptx_structure builds from it, for titles and body paragraphs    *)
(* around the lengths at which create_placeholder_slide truncates.         *)

Filler(n, c) == [i \in 1..n |-> c]

\* what stands between the filling: nothing, '&', '<', '>', or the five
\* characters "&amp;" as text
Specials == {<< >>, << Amp >>, << Lt >>, << Gt >>, AmpEntity}

MaxEdge == 4

\* texts of 'a's, one of the specials and 'b's, with the special placed
\* within MaxEdge characters of the limit or at the start of the text
EdgeTexts(limit) ==
    {Filler(k, 97) \o special \o Filler(j, 98) :
        k \in {0} \cup ((limit - MaxEdge)..limit), special \in Specials, j \in 0..MaxEdge}

PlainTitle == << 65, 103, 101, 110, 100, 97 >>                  \* "Agenda"
PlainBody == << 102, 105, 114, 115, 116, 32, 98, 111, 100, 121, 32, 116, 101, 120, 116 >>
                                                                 \* "first body text"

MaxImages == 2

\* a body of more fragments, and more images, than a slide shows
MaxBody == 10
MaxPictures == 6

InitSlide ==
    /\ pc = "distribute"
    /\ \/ /\ \E title \in EdgeTexts(100) \cup {PlainTitle},
                content \in {<< >>, << PlainBody >>}
                            \cup {<< para >> : para \in EdgeTexts(1000)}
                            \cup {<< PlainBody, para >> : para \in EdgeTexts(100)} :
                /\ title = PlainTitle \/ content \in {<< >>, << PlainBody >>}
                /\ slides_content = (1 :> SlideGroup(title, content))
          /\ image_count \in 0..MaxImages
       \/ /\ \E b \in 0..MaxBody :
                slides_content = (1 :> SlideGroup(PlainTitle, [k \in 1..b |-> BodyText(k)]))
          /\ image_count \in 0..MaxPictures
    /\ args = SegArgs(100, NoTextFile)
    /\ data = << >>
    /\ text_paragraphs = << >>
    /\ media = EmptyDict
    /\ scan = NoScan
    /\ workdir = [exists |-> TRUE, parts |-> {}]
    /\ plan = NoPlan
    /\ archives = EmptyDict
    /\ result = "running"

\* main, line 705
SlideDistribute ==
    /\ pc = "distribute"
    /\ slides_content' = distribute_images(slides_content, image_count)
    /\ pc' = "build"
    /\ UNCHANGED << args, data, text_paragraphs, image_count, media, scan, workdir, plan,
                    archives, result >>

\* main, lines 730-751, for the one archive of the one slide
SlideBuild ==
    /\ pc = "build"
    /\ LET file_slide_numbers == SortedSeq(DOMAIN slides_content)
           file_content       == FileContent(slides_content, file_slide_numbers)
       IN  archives' = (1 :> [file_slide_numbers |-> file_slide_numbers,
                              package |-> create_pptx_structure(media, file_content, 1, 1,
                                                                Len(file_slide_numbers))])
    /\ pc' = "built"
    /\ UNCHANGED << args, data, text_paragraphs, slides_content, image_count, media, scan,
                    workdir, plan, result >>

NextSlide == SlideDistribute \/ SlideBuild

SpecSlide == InitSlide /\ [][NextSlide]_vars

-----------------------------------------------------------------------------
(* The text a slide part carries                                           *)

\* the texts embedded in the slide parts of the archives: each with the
\* text of the slide group it was made from and the length it is cut at
EmbeddedTexts ==
    UNION {LET package == archives[k].package
               group(i) == slides_content[archives[k].file_slide_numbers[i]]
           IN  UNION {{[from |-> group(i).title, text |-> package.slides[i].title,
                        limit |-> 100]}
                      \cup {[from |-> group(i).content[j],
                             text |-> package.slides[i].texts[j].text,
                             limit |-> 1000] : j \in 1..Len(package.slides[i].texts)}
                      : i \in 1..Len(package.slides)}
           : k \in DOMAIN archives}

\* text[i] starts one of the entities &amp; &lt; &gt;
EntityAt(text, i) ==
    \E entity \in {AmpEntity, LtEntity, GtEntity} :
        SubSeq(text, i, Min(i + Len(entity) - 1, Len(text))) = entity

\* C13, as claimed: the title and every body text embedded in a slide
\* part, truncated or not, holds no raw '<' or '>', and every '&' in it
\* starts a complete entity &amp;, &lt; or &gt;.
C13_Escaped ==
    \A e \in EmbeddedTexts :
        \A i \in 1..Len(e.text) :
            /\ e.text[i] \notin {Lt, Gt}
            /\ e.text[i] = Amp => EntityAt(e.text, i)

\* C14, as claimed: a title is cut to 97 characters and "..." exactly when
\* the title itself is longer than 100 characters, a body text exactly when
\* the text itself is longer than 1000 characters (997 and "..."); shorter
\* ones are embedded in full, escaped.
C14_CutByOwnLength ==
    \A e \in EmbeddedTexts :
        IF Len(e.from) > e.limit
        THEN e.text = Slice(Sanitize(e.from), 0, e.limit - 3) \o Ellipsis
        ELSE e.text = Sanitize(e.from)

-----------------------------------------------------------------------------
(* The slide list of an archive                                            *)

\* C15: in every archive the slides of the block are slides 1..blockSize
\* in their original order; presentation.xml lists one slide id and one
\* relationship id per slide in that order, the slide ids all different;
\* the i-th relationship id names exactly one entry of
\* presentation.xml.rels, whose target is slides/slide<i>.xml, and slide
\* part i is the one made from the i-th slide group of the block.
C15_SlideList ==
    \A k \in DOMAIN archives :
        LET package   == archives[k].package
            block     == archives[k].file_slide_numbers
            blockSize == Len(block)
        IN  /\ \A i \in 1..(blockSize - 1) : block[i] < block[i + 1]
            /\ DOMAIN package.slides = 1..blockSize
            /\ DOMAIN package.slide_rels = 1..blockSize
            /\ DOMAIN package.sldIdLst = 1..blockSize
            /\ \A i, j \in 1..blockSize :
                  package.sldIdLst[i].id = package.sldIdLst[j].id => i = j
            /\ \A i \in 1..blockSize :
                  LET entries == {r \in 1..Len(package.pres_rels) :
                                     package.pres_rels[r].Id = package.sldIdLst[i].rid}
                      group   == slides_content[block[i]]
                      part    == create_placeholder_slide(i, group.title, group.content,
                                                          group.images)
                  IN  /\ Cardinality(entries) = 1
                      /\ \A r \in entries : package.pres_rels[r].Target = SlidePart(i)
                      /\ package.content_types[i] = SlidePart(i)
                      /\ package.slides[i] = part.slide_xml
                      /\ package.slide_rels[i] = part.slide_rels_xml

\* A second archive of two or more slides with different titles.
C15_Witness ==
    \E k \in DOMAIN archives :
        /\ k >= 2
        /\ Len(archives[k].file_slide_numbers) >= 2
        /\ archives[k].file_slide_numbers[1] > 1
        /\ archives[k].package.slides[1].title # archives[k].package.slides[2].title
        /\ archives[k].package.slides[1].title # archives[1].package.slides[1].title

-----------------------------------------------------------------------------
(* The archives of a successful run                                        *)

\* C16: when main returns 0 it has written at least one archive, and the
\* archives written are rebuilt_part_1 .. rebuilt_part_N, none left out,
\* N being num_files of line 722: no turn of the loop found an empty
\* partition.
C16_AllPartsWritten ==
    result = "return 0" =>
        /\ plan.num_files >= 1
        /\ DOMAIN archives = 1..plan.num_files
        /\ \A k \in DOMAIN archives :
              /\ archives[k].file_slide_numbers # << >>
              /\ archives[k].package.part_num = k

\* A finished run of several archives whose last archive is as full as
\* the others.
C16_Witness ==
    /\ result = "return 0"
    /\ pc = "end"
    /\ plan.num_files >= 2
    /\ plan.num_files * plan.slides_per_file = plan.total_slides
    /\ DOMAIN archives = 1..plan.num_files

-----------------------------------------------------------------------------
(* Where the carver searches next                                          *)

\* the ranges carved so far for the format the scan is at
CarvedOf(kind) ==
    {scan.carved[c] : c \in {c \in 1..Len(scan.carved) : scan.carved[c].kind = kind}}

\* C17, as claimed: after a match the next search starts at the end of the
\* match, so that no two ranges carved for one format overlap and none is
\* carved twice.
C17_NonOverlappingScan ==
    /\ \A kind \in {"png", "jpg"} :
          \A c1, c2 \in 1..Len(scan.carved) :
              (c1 < c2 /\ scan.carved[c1].kind = kind /\ scan.carved[c2].kind = kind) =>
                  scan.carved[c1].stop <= scan.carved[c2].start
    /\ pc \in {"png", "jpg"} => \A r \in CarvedOf(pc) : scan.pos >= r.stop

-----------------------------------------------------------------------------
(* The title heuristic on its own: is_likely_title applied to one fragment *)

TitleWords ==
    { << 83, 108, 105, 100, 101 >>,                 \* "Slide"
      << 83, 76, 73, 68, 69 >>,                     \* "SLIDE"
      << 49, 50 >>,                                 \* "12"
      << 65, 103, 101, 110, 100, 97 >>,             \* "Agenda"
      << 65, 71, 69, 78, 68, 65 >>,                 \* "AGENDA"
      << 110, 111, 116, 101, 115 >>,                \* "notes"
      << 84, 111, 112, 105, 99, 58 >> }             \* "Topic:"

\* the fragments of exactly k words, one space between two words
RECURSIVE WordsJoined(_)
WordsJoined(k) ==
    IF k = 1 THEN TitleWords
    ELSE {f \o << 32 >> \o w : f \in WordsJoined(k - 1), w \in TitleWords}

\* u words "Ab" followed by l words "cd"
RECURSIVE Mix(_, _)
Mix(u, l) ==
    IF u > 0 THEN << 65, 98 >> \o (IF u + l > 1 THEN << 32 >> ELSE << >>) \o Mix(u - 1, l)
    ELSE IF l > 0 THEN << 99, 100 >> \o (IF l > 1 THEN << 32 >> ELSE << >>) \o Mix(0, l - 1)
    ELSE << >>

MaxTitleWords == 3
MaxMix == 7
TitleFragments ==
    LET short == UNION {WordsJoined(k) : k \in 1..MaxTitleWords}
        few   == WordsJoined(1) \cup WordsJoined(2)
    IN  short
        \cup {f \o << 32 >> : f \in short}                          \* trailing blank
        \cup {Mix(u, l) : u, l \in 0..MaxMix}
        \cup {f \o << 32 >> \o Filler(60, 88) : f \in few}          \* 60 or more characters
        \cup {f \o << 32 >> \o Filler(60, 120) \o << Colon >> : f \in few}
        \cup {Filler(n, 88) : n \in 58..61}
        \cup {Filler(n, 88) \o << 32, 89 >> : n \in 56..59}
        \cup { << 83, 108, 105, 100, 101, 32, 32, 9, 55 >>,         \* "Slide  \t7"
               << 83, 108, 105, 100, 101, 49, 50 >>,                \* "Slide12"
               << 32, 83, 108, 105, 100, 101, 32, 49 >> }           \* " Slide 1"

InitTitle ==
    /\ pc = "check"
    /\ text_paragraphs \in {<< f >> : f \in TitleFragments}
    /\ data = << >>
    /\ args = SegArgs(100, NoTextFile)
    /\ slides_content = EmptyDict
    /\ image_count = 0
    /\ media = EmptyDict
    /\ scan = NoScan
    /\ workdir = [exists |-> TRUE, parts |-> {}]
    /\ plan = NoPlan
    /\ archives = EmptyDict
    /\ result = "running"

\* is_likely_title(text) and what it returns
TitleCheck ==
    /\ pc = "check"
    /\ result' = IF is_likely_title(text_paragraphs[1]) THEN "True" ELSE "False"
    /\ pc' = "checked"
    /\ UNCHANGED << args, data, text_paragraphs, slides_content, image_count, media, scan,
                    workdir, plan, archives >>

NextTitle == TitleCheck

SpecTitle == InitTitle /\ [][NextTitle]_vars

\* where the words of a fragment begin
WordStarts(f) == {i \in 1..Len(f) : ~IsSpace(f[i]) /\ (i = 1 \/ IsSpace(f[i - 1]))}

\* the words that begin with an uppercase letter
CapitalStarts(f) == {i \in WordStarts(f) : IsUpper(f[i])}

\* f begins with "slide" in any case, then blanks, then a digit
SlideNumberPrefix(f) ==
    \E d \in 7..Len(f) :
        /\ IsDigit(f[d])
        /\ \A j \in 6..(d - 1) : IsSpace(f[j])
        /\ \A j \in 1..5 : ToLower(f[j]) = SlideWord[j]

\* f has a letter and none of its letters is lowercase
EntirelyUppercase(f) ==
    /\ {i \in 1..Len(f) : IsUpper(f[i])} # {}
    /\ {i \in 1..Len(f) : IsLower(f[i])} = {}

\* at least 70% of the words of f, of which there are at least least, begin
\* with an uppercase letter
MostlyCapitalised(f, least) ==
    /\ Cardinality(WordStarts(f)) >= least
    /\ 10 * Cardinality(CapitalStarts(f)) >= 7 * Cardinality(WordStarts(f))

\* C18, as claimed: a fragment is a title exactly when it matches
\* "Slide <number>" in any case, or is under 60 characters and ends with a
\* colon, is entirely uppercase, or has at least 70% of its words begin with an
\* uppercase letter; a fragment of a single word is no exception.
C18_TitleRule ==
    pc = "checked" =>
        LET f == text_paragraphs[1]
        IN  (result = "True") <=>
                \/ SlideNumberPrefix(f)
                \/ /\ Len(f) < 60
                   /\ \/ (f # << >> /\ f[Len(f)] = Colon)
                      \/ EntirelyUppercase(f)
                      \/ MostlyCapitalised(f, 1)

\* C18, amended: a fragment is a title exactly when it begins with
\* "Slide <number>" in any case, or is under 60 characters and its last
\* character other than trailing whitespace is a colon, or it is entirely
\* uppercase, or it has at least two words and at least 70% of them begin with
\* an uppercase letter.
C18_TitleRuleTwoWords ==
    pc = "checked" =>
        LET f == text_paragraphs[1]
        IN  (result = "True") <=>
                \/ SlideNumberPrefix(f)
                \/ /\ Len(f) < 60
                   /\ \/ \E i \in 1..Len(f) :
                            f[i] = Colon /\ \A j \in (i + 1)..Len(f) : IsSpace(f[j])
                      \/ EntirelyUppercase(f)
                      \/ MostlyCapitalised(f, 2)

\* A single capitalised word, neither uppercase throughout nor ending in a
\* colon, was checked and is not a title.
C18_Witness ==
    /\ pc = "checked"
    /\ LET f == text_paragraphs[1]
       IN  /\ Cardinality(WordStarts(f)) = 1
           /\ Cardinality(CapitalStarts(f)) = 1
           /\ Len(f) < 60
           /\ ~EntirelyUppercase(f)
    /\ result = "False"

-----------------------------------------------------------------------------
(* organize_text_into_slides, one step of the function per action          *)

\* the locals of organize_text_into_slides
OrgLocals ==
    [paragraphs |-> << >>, first |-> << >>, title_indices |-> << >>, widened |-> FALSE,
     fallback |-> FALSE, paras_per_slide |-> 0, slides |-> EmptyDict]

\* stray tokens: under 3 characters, under 5, and under 3 once stripped
ShortTokens ==
    { << 45 >>,                                     \* "-"
      << 97, 98 >>,                                 \* "ab"
      << 97, 98, 99, 100 >>,                        \* "abcd"
      << 32, 32, 97, 98, 32, 32 >> }                \* "  ab  "

\* fragment lists with a stray token in front of a fragment
ShortTokenLists ==
    {<< token, f >> : token \in ShortTokens, f \in Fragments}
    \cup {<< f, token, g >> : token \in ShortTokens, f \in Fragments, g \in Fragments}
    \cup {<< f, token, other, g >> : token \in {<< 45 >>}, other \in {<< 97, 98 >>},
                                     f \in Fragments, g \in Fragments}

InitOrg ==
    /\ pc = "filter"
    /\ \E max_slides \in SegMaxSlides : args = SegArgs(max_slides, NoTextFile)
    /\ text_paragraphs \in FragmentLists \cup ShortTokenLists
    /\ data = << >>
    /\ slides_content = EmptyDict
    /\ image_count = 0
    /\ media = EmptyDict
    /\ scan = NoScan
    /\ workdir = [exists |-> TRUE, parts |-> {}]
    /\ plan = OrgLocals
    /\ archives = EmptyDict
    /\ result = "running"

OrgUnchanged ==
    UNCHANGED << args, data, text_paragraphs, image_count, media, scan, workdir, archives,
                 result >>

\* lines 236-256
OrgFilter ==
    /\ pc = "filter"
    /\ plan' = [plan EXCEPT !.paragraphs =
                   LimitParagraphs(FilterParagraphs(text_paragraphs, 1, << >>),
                                   args.max_slides)]
    /\ pc' = "first pass"
    /\ UNCHANGED slides_content
    /\ OrgUnchanged

\* lines 259-262
OrgFirstPass ==
    /\ pc = "first pass"
    /\ LET first == InitialTitleIndices(plan.paragraphs, 0)
       IN  plan' = [plan EXCEPT !.first = first, !.title_indices = first]
    /\ pc' = "widen"
    /\ UNCHANGED slides_content
    /\ OrgUnchanged

\* lines 265-270
OrgWiden ==
    /\ pc = "widen"
    /\ IF Len(plan.title_indices) < args.max_slides \div 2
       THEN plan' = [plan EXCEPT
                        !.title_indices =
                            WidenTitleIndices(plan.paragraphs, 0, plan.title_indices),
                        !.widened = TRUE]
       ELSE UNCHANGED plan
    /\ pc' = "sort"
    /\ UNCHANGED slides_content
    /\ OrgUnchanged

\* line 273
OrgSort ==
    /\ pc = "sort"
    /\ plan' = [plan EXCEPT !.title_indices = SortList(plan.title_indices)]
    /\ pc' = "segment"
    /\ UNCHANGED slides_content
    /\ OrgUnchanged

\* lines 276-318
OrgSegment ==
    /\ pc = "segment"
    /\ IF UsesFallback(plan.title_indices)
       THEN LET paras_per_slide == ParasPerSlide(plan.paragraphs, args.max_slides)
            IN  plan' = [plan EXCEPT
                            !.fallback = TRUE,
                            !.paras_per_slide = paras_per_slide,
                            !.slides = FallbackLoop(plan.paragraphs, paras_per_slide, 0, 1,
                                                    EmptyDict)]
       ELSE plan' = [plan EXCEPT
                        !.slides = PrimaryLoop(plan.paragraphs, plan.title_indices, 0, 1,
                                               EmptyDict)]
    /\ pc' = "limit"
    /\ UNCHANGED slides_content
    /\ OrgUnchanged

\* lines 321-327
OrgLimit ==
    /\ pc = "limit"
    /\ slides_content' = LimitSlides(plan.slides, args.max_slides)
    /\ pc' = "organized"
    /\ UNCHANGED plan
    /\ OrgUnchanged

NextOrg == OrgFilter \/ OrgFirstPass \/ OrgWiden \/ OrgSort \/ OrgSegment \/ OrgLimit

SpecOrg == InitOrg /\ [][NextOrg]_vars

\* The steps together compute what the function computes.
OrgStepsAgree ==
    pc = "organized" =>
        slides_content = organize_text_into_slides(text_paragraphs, args.max_slides)

\* the indices (0-based) of the fragments that end in ':' or '.' once stripped
EndsInColonOrPeriod(paragraphs) ==
    {i \in 0..(Len(paragraphs) - 1) :
        LET para == Strip(paragraphs[i + 1])
        IN  para # << >> /\ para[Len(para)] \in {Colon, Period}}

\* what the widening step left: with widening, the first pass and every fragment
\* that ends in ':' or '.'; without, the first pass alone
WidenedAsFlagged ==
    LET marked == {plan.title_indices[k] : k \in 1..Len(plan.title_indices)}
        first  == {plan.first[k] : k \in 1..Len(plan.first)}
    IN  /\ Cardinality(marked) = Len(plan.title_indices)
        /\ marked = IF plan.widened THEN first \cup EndsInColonOrPeriod(plan.paragraphs)
                    ELSE first

StrictlyIncreasing(l) == \A k \in 1..(Len(l) - 1) : l[k] < l[k + 1]

\* C19, as claimed: the boundary set is widened exactly when the first pass
\* found fewer boundaries than half of max_slides, odd values included, and
\* the boundaries are afterwards strictly increasing, none repeated.
C19_WidenBelowHalf ==
    /\ pc \in {"sort", "segment", "limit", "organized"} =>
          /\ plan.widened <=> 2 * Len(plan.first) < args.max_slides
          /\ WidenedAsFlagged
    /\ pc \in {"segment", "limit", "organized"} => StrictlyIncreasing(plan.title_indices)

\* C19, amended: the boundary set is widened exactly when the first pass found
\* fewer boundaries than half of max_slides rounded down, that is when twice
\* their number plus two is at most max_slides; the boundaries are afterwards
\* strictly increasing, none repeated.
C19_WidenBelowFlooredHalf ==
    /\ pc \in {"sort", "segment", "limit", "organized"} =>
          /\ plan.widened <=> 2 * Len(plan.first) + 2 <= args.max_slides
          /\ WidenedAsFlagged
    /\ pc \in {"segment", "limit", "organized"} => StrictlyIncreasing(plan.title_indices)

\* An odd max_slides with exactly (max_slides - 1) / 2 boundaries from the
\* first pass: a fragment ending in ':' or '.' stays unmarked.
C19_Witness ==
    /\ pc = "segment"
    /\ 2 * Len(plan.first) + 1 = args.max_slides
    /\ ~plan.widened
    /\ \E i \in EndsInColonOrPeriod(plan.paragraphs) : ~InSeq(i, plan.title_indices)

\* The boundary set was widened by a fragment the first pass had not marked,
\* while one it had marked ends in ':' as well.
C19_WitnessWidened ==
    /\ pc = "segment"
    /\ plan.widened
    /\ \E i, j \in EndsInColonOrPeriod(plan.paragraphs) :
          InSeq(i, plan.first) /\ ~InSeq(j, plan.first) /\ j < i

-----------------------------------------------------------------------------
(* The fallback path of the segmenter                                      *)

Clamp(low, high, x) == IF x < low THEN low ELSE IF x > high THEN high ELSE x

\* the fragments of chunk c (from 1) when the chunks hold size fragments
Chunk(paragraphs, size, c) ==
    [k \in 1..(IF c * size <= Len(paragraphs) THEN size
               ELSE Len(paragraphs) - (c - 1) * size) |->
        paragraphs[(c - 1) * size + k]]

\* C20, as claimed: the fallback path is taken exactly when fewer than 5
\* boundaries exist after widening; the fragments are then cut into consecutive
\* chunks of clamp(1, 8, total / clamp(max_slides, 1, 15)) fragments, and each
\* chunk makes a slide: titled by its first fragment, the rest being the body,
\* if that fragment is under 60 characters, and otherwise titled "Slide <n>"
\* with the whole chunk as the body.
C20_FallbackChunks ==
    pc \in {"limit", "organized"} =>
        /\ plan.fallback <=> Len(plan.title_indices) < 5
        /\ plan.fallback =>
              LET total  == Len(plan.paragraphs)
                  size   == Clamp(1, 8, total \div Clamp(1, 15, args.max_slides))
                  chunks == (total + size - 1) \div size
              IN  /\ DOMAIN plan.slides = 1..chunks
                  /\ \A c \in 1..chunks :
                        LET chunk == Chunk(plan.paragraphs, size, c)
                        IN  IF Len(chunk[1]) < 60
                            THEN /\ plan.slides[c].title = chunk[1]
                                 /\ plan.slides[c].content = Tail(chunk)
                            ELSE /\ plan.slides[c].title = SlideTitle(c)
                                 /\ plan.slides[c].content = chunk

-----------------------------------------------------------------------------
(* What the segmenter returns                                              *)

\* C21, as claimed: on either path a group whose body is empty is discarded
\* before it is numbered, so that no group of the segmenter has an empty body
\* under a title other than the synthesized "Slide <n>".
C21_NoEmptyBody ==
    /\ pc \in {"limit", "organized"} =>
          \A n \in DOMAIN plan.slides :
              plan.slides[n].content # << >> \/ plan.slides[n].title = SlideTitle(n)
    /\ pc = "organized" =>
          \A n \in DOMAIN slides_content :
              slides_content[n].content # << >> \/ slides_content[n].title = SlideTitle(n)

\* where the candidate of boundary k ends: at the next boundary, or at the end
\* of the fragments (0-based, exclusive)
CandidateEnd(k) ==
    IF k < Len(plan.title_indices) THEN plan.title_indices[k + 1] ELSE Len(plan.paragraphs)

\* the boundaries, by position in title_indices, whose candidate has a body
KeptCandidates ==
    SelectSeq([k \in 1..Len(plan.title_indices) |-> k],
              LAMBDA k : CandidateEnd(k) > plan.title_indices[k] + 1)

\* C22: on the primary path every boundary b starts a candidate titled by the
\* fragment at b, its body the fragments strictly between b and the next
\* boundary (or the end), in order; the candidates with a body are numbered
\* from 1 in boundary order and the others dropped, so that the groups cover
\* disjoint stretches of the fragments that follow each other in number order.
C22_PrimaryGroups ==
    (pc \in {"limit", "organized"} /\ ~plan.fallback) =>
        /\ DOMAIN plan.slides = 1..Len(KeptCandidates)
        /\ \A j \in 1..Len(KeptCandidates) :
              LET k == KeptCandidates[j]
                  b == plan.title_indices[k]
              IN  /\ plan.slides[j].title = plan.paragraphs[b + 1]
                  /\ plan.slides[j].content =
                        [i \in 1..(CandidateEnd(k) - b - 1) |-> plan.paragraphs[b + 1 + i]]
                  /\ plan.slides[j].images = << >>
                  /\ \A j2 \in (j + 1)..Len(KeptCandidates) :
                        CandidateEnd(k) <= plan.title_indices[KeptCandidates[j2]]

\* The primary path made several groups and dropped a boundary that had no
\* body.
C22_Witness ==
    /\ pc = "limit"
    /\ ~plan.fallback
    /\ Len(KeptCandidates) >= 2
    /\ Len(KeptCandidates) < Len(plan.title_indices)
    /\ DOMAIN plan.slides = 1..Len(KeptCandidates)

\* C23: of more than max_slides groups the segmenter returns the max_slides
\* groups with the lowest numbers, each with its title and body unchanged, and
\* no other group; of at most max_slides groups it returns all.
C23_LowestNumbersKept ==
    pc = "organized" =>
        LET made == DOMAIN plan.slides
        IN  IF Cardinality(made) > args.max_slides
            THEN /\ Cardinality(DOMAIN slides_content) = args.max_slides
                 /\ DOMAIN slides_content \subseteq made
                 /\ \A n \in DOMAIN slides_content : \A later \in made \ DOMAIN slides_content :
                       n < later
                 /\ \A n \in DOMAIN slides_content : slides_content[n] = plan.slides[n]
            ELSE slides_content = plan.slides

\* The segmenter made more groups than max_slides and returned max_slides of
\* them.
C23_Witness ==
    /\ pc = "organized"
    /\ Cardinality(DOMAIN plan.slides) > args.max_slides
    /\ Cardinality(DOMAIN slides_content) = args.max_slides
    /\ args.max_slides >= 2

-----------------------------------------------------------------------------
(* The distributor on its own: distribute_images on groups without images  *)

MaxDistSlides == 4
MaxDistImages == 5

\* the group the distributor is given under the number n
GroupBefore(n) == SlideGroup(SlideTitle(n), << BodyText(n) >>)

InitDist ==
    /\ pc = "distribute"
    /\ \E numbers \in SUBSET (1..MaxDistSlides) :
          slides_content = [n \in numbers |-> GroupBefore(n)]
    /\ image_count \in 0..MaxDistImages
    /\ args = SegArgs(100, NoTextFile)
    /\ data = << >>
    /\ text_paragraphs = << >>
    /\ media = EmptyDict
    /\ scan = NoScan
    /\ workdir = [exists |-> TRUE, parts |-> {}]
    /\ plan = NoPlan
    /\ archives = EmptyDict
    /\ result = "running"

\* distribute_images(slides_content, image_count)
DistDistribute ==
    /\ pc = "distribute"
    /\ IF DistributeRaises(slides_content, image_count)
       THEN /\ result' = "ZeroDivisionError"
            /\ UNCHANGED slides_content
       ELSE /\ slides_content' = distribute_images(slides_content, image_count)
            /\ result' = "returned"
    /\ pc' = "distributed"
    /\ UNCHANGED << args, data, text_paragraphs, image_count, media, scan, workdir, plan,
                    archives >>

NextDist == DistDistribute

SpecDist == InitDist /\ [][NextDist]_vars

\* how many slide numbers lie below n: the 0-based index of n in the sorted
\* list of slide numbers
SortedIndex(n) == Cardinality({k \in DOMAIN slides_content : k < n})

\* the images, by number, that fall on index p when image i goes to the index
\* (i - shift) mod K
ImagesAt(p, shift) ==
    SortedSeq({i \in 1..image_count :
                  (i - shift) % Cardinality(DOMAIN slides_content) = p})

\* every group has its title and body as before and the images that fall on
\* its index, named as PNG files, in increasing image number
DistributedBy(shift) ==
    \A n \in DOMAIN slides_content :
        LET mine == ImagesAt(SortedIndex(n), shift)
        IN  /\ slides_content[n].title = GroupBefore(n).title
            /\ slides_content[n].content = GroupBefore(n).content
            /\ slides_content[n].images = [j \in 1..Len(mine) |-> ImageName(mine[j], DotPng)]

\* C24, as claimed: with K >= 1 groups image i of 1..c goes to the slide at
\* index i mod K of the sorted slide numbers and to no other, each slide
\* receiving its images in increasing i, titles and bodies untouched.
C24_RoundRobinByNumber ==
    (pc = "distributed" /\ result = "returned") => DistributedBy(0)

\* C24, amended: with K >= 1 groups image i of 1..c goes to the slide at index
\* (i - 1) mod K of the sorted slide numbers and to no other, so that image 1
\* falls on the first slide, each slide receiving its images in increasing i,
\* titles and bodies untouched.
C24_RoundRobinFromFirst ==
    (pc = "distributed" /\ result = "returned") => DistributedBy(1)

\* More images than slides were distributed over several slides.
C24_Witness ==
    /\ pc = "distributed"
    /\ result = "returned"
    /\ Cardinality(DOMAIN slides_content) >= 2
    /\ image_count > Cardinality(DOMAIN slides_content)
    /\ \E n \in DOMAIN slides_content : Len(slides_content[n].images) >= 2

-----------------------------------------------------------------------------
(* What a slide part holds                                                 *)

\* the slide part and the relationship part of the one slide built
BuiltSlide == archives[1].package.slides[1]
BuiltRels == archives[1].package.slide_rels[1]

AtMost(limit, n) == IF n < limit THEN n ELSE limit

\* C25: of b body fragments and m image names the slide part holds the first
\* min(8, b) fragments as body runs and the first min(4, m) images as
\* pictures, in order, and the relationship part lists min(4, m) relationships
\* rId1, rId2, ..., the j-th to the j-th image name.
C25_ShownPartsOnly ==
    pc = "built" =>
        LET content == slides_content[1].content
            images  == slides_content[1].images
        IN  /\ Len(BuiltSlide.texts) = AtMost(8, Len(content))
            /\ \A i \in 1..Len(BuiltSlide.texts) :
                  BuiltSlide.texts[i].text = SlideBodyText(content[i])
            /\ Len(BuiltSlide.pics) = AtMost(4, Len(images))
            /\ \A j \in 1..Len(BuiltSlide.pics) : BuiltSlide.pics[j].embed = RId(j)
            /\ Len(BuiltRels) = AtMost(4, Len(images))
            /\ \A j \in 1..Len(BuiltRels) :
                  /\ BuiltRels[j].Id = RId(j)
                  /\ BuiltRels[j].Target = MediaTarget(images[j])

\* A slide of more than 8 body fragments and more than 4 images was built.
C25_Witness ==
    /\ pc = "built"
    /\ Len(slides_content[1].content) > 8
    /\ Len(slides_content[1].images) > 4
    /\ Len(BuiltSlide.texts) = 8
    /\ Len(BuiltRels) = 4

\* the shape identifiers of the slide part, in document order
ShapeIds ==
    << BuiltSlide.group_id, BuiltSlide.title_id >>
    \o [i \in 1..Len(BuiltSlide.texts) |-> BuiltSlide.texts[i].id]
    \o [j \in 1..Len(BuiltSlide.pics) |-> BuiltSlide.pics[j].id]

\* C28: in a slide part the shape identifiers are pairwise distinct: 1 for the
\* group shape, 2 for the title, 3 up to at most 10 for the body runs and 20 up
\* to at most 23 for the pictures.
C28_DistinctShapeIds ==
    pc = "built" =>
        /\ \A x, y \in 1..Len(ShapeIds) : x # y => ShapeIds[x] # ShapeIds[y]
        /\ BuiltSlide.group_id = 1
        /\ BuiltSlide.title_id = 2
        /\ \A i \in 1..Len(BuiltSlide.texts) :
              BuiltSlide.texts[i].id = 2 + i /\ BuiltSlide.texts[i].id <= 10
        /\ \A j \in 1..Len(BuiltSlide.pics) :
              BuiltSlide.pics[j].id = 19 + j /\ BuiltSlide.pics[j].id <= 23

\* A slide part with all 8 body runs and all 4 pictures, made from a longer
\* body and more images.
C28_Witness ==
    /\ pc = "built"
    /\ Len(slides_content[1].content) > 8
    /\ Len(slides_content[1].images) > 4
    /\ Len(ShapeIds) = 14

-----------------------------------------------------------------------------
(* Carved JPEG files and the archives                                      *)

\* the image numbers the carver gave to JPEG streams
JpegNumbers == (scan.png_count + 1)..(scan.png_count + scan.jpg_count)

\* C27: a validated JPEG is stored as image_<n>.jpg while every slide names
\* image n as image_<n>.png; so in every archive the media file of an image
\* carved as a JPEG is a generated placeholder, never the carved bytes, and a
\* media file with carved bytes is an image carved as a PNG.
C27_JpegNeverEmbedded ==
    /\ \A n \in JpegNumbers :
          /\ ImageName(n, DotJpg) \in DOMAIN scan.media
          /\ ImageName(n, DotPng) \notin DOMAIN scan.media
    /\ \A num \in DOMAIN slides_content :
          \A j \in 1..Len(slides_content[num].images) :
              \E n \in 1..image_count : slides_content[num].images[j] = ImageName(n, DotPng)
    /\ \A k \in DOMAIN archives :
          LET package == archives[k].package
          IN  /\ \A n \in JpegNumbers :
                    /\ ImageName(n, DotJpg) \notin DOMAIN package.media
                    /\ ImageName(n, DotPng) \in DOMAIN package.media =>
                          /\ package.media[ImageName(n, DotPng)].placeholder
                          /\ package.media[ImageName(n, DotPng)].bytes
                                # scan.media[ImageName(n, DotJpg)]
              /\ \A img_file \in DOMAIN package.media :
                    ~package.media[img_file].placeholder =>
                        \E n \in 1..scan.png_count :
                            /\ img_file = ImageName(n, DotPng)
                            /\ package.media[img_file].bytes = scan.media[img_file]
                            /\ \E c \in 1..Len(scan.carved) :
                                  /\ scan.carved[c].kind = "png"
                                  /\ scan.media[img_file] =
                                        Slice(data, scan.carved[c].start, scan.carved[c].stop)

\* An archive that holds the carved bytes of a PNG and a placeholder for an
\* image carved as a JPEG.
C27_Witness ==
    \E k \in DOMAIN archives :
        LET package == archives[k].package
        IN  /\ \E n \in JpegNumbers :
                  /\ ImageName(n, DotPng) \in DOMAIN package.media
                  /\ package.media[ImageName(n, DotPng)].placeholder
            /\ \E n \in 1..scan.png_count :
                  /\ ImageName(n, DotPng) \in DOMAIN package.media
                  /\ ~package.media[ImageName(n, DotPng)].placeholder

-----------------------------------------------------------------------------
(* The first pass of the segmenter                                         *)

\* C26: after the filter every working fragment has at least 5 characters, so
\* that no fragment follows one of under 3 characters and the first pass marks
\* exactly the fragments that is_likely_title accepts.
C26_TitlesOnly ==
    /\ pc \in {"first pass", "widen", "sort", "segment", "limit", "organized"} =>
          \A i \in 1..Len(plan.paragraphs) : Len(plan.paragraphs[i]) >= 5
    /\ pc \in {"widen", "sort", "segment", "limit", "organized"} =>
          /\ {plan.first[k] : k \in 1..Len(plan.first)} =
                {i \in 0..(Len(plan.paragraphs) - 1) : is_likely_title(plan.paragraphs[i + 1])}
          /\ \A k \in 1..(Len(plan.first) - 1) : plan.first[k] < plan.first[k + 1]

\* The fragments given held one of under 3 characters directly in front of a
\* fragment under 50 characters that is no title; that fragment came through
\* the filter and the first pass did not mark it.
C26_Witness ==
    /\ pc = "widen"
    /\ \E i \in 1..(Len(text_paragraphs) - 1) :
          /\ Len(text_paragraphs[i]) < 3
          /\ Len(text_paragraphs[i + 1]) < 50
          /\ ~is_likely_title(text_paragraphs[i + 1])
          /\ \E j \in 1..Len(plan.paragraphs) :
                /\ plan.paragraphs[j] = text_paragraphs[i + 1]
                /\ ~InSeq(j - 1, plan.first)

=============================================================================
